---- MODULE Spec2Model ----
(***************************************************************************)
(* A model of the amqpframe wire codec (amqpframe/types.py, methods.py,    *)
(* frames.py, basic.py).  Python objects are records, byte strings are     *)
(* sequences of 0..255, a BytesIO stream is a byte sequence and a cursor.  *)
(* Python integers are unbounded; they are kept here as a sign and a       *)
(* big-endian magnitude of NB bytes, so that the 64-bit kinds and their    *)
(* out-of-range neighbours are exact.                                      *)
(***************************************************************************)
EXTENDS Integers, Sequences, FiniteSets, TLC

\* op: the last call made; arg: what it was given; obj: the object built;
\* stream, pos: the BytesIO in use and its cursor; ret: what the last call
\* returned or raised
VARIABLES op, arg, obj, stream, pos, ret

vars == <<op, arg, obj, stream, pos, ret>>

(***************************************************************************)
(* Bytes and Python integers                                               *)
(***************************************************************************)
Byte == 0..255

\* bytes of a magnitude: enough for 2^64 (UnsignedLongLong.MAX + 1)
NB == 8 + 1

Max2(a, b) == IF a >= b THEN a ELSE b

Min2(a, b) == IF a <= b THEN a ELSE b

ZeroBytes(n) == [i \in 1..n |-> 0]

\* the last n bytes of b
LastBytes(b, n) == SubSeq(b, Len(b) - n + 1, Len(b))

\* a non-negative native number as n big-endian bytes
RECURSIVE NatBytes(_, _)
NatBytes(x, n) ==
    IF n = 0 THEN <<>> ELSE Append(NatBytes(x \div 256, n - 1), x % 256)

\* big-endian bytes as a native number (short sequences only)
RECURSIVE BytesNat(_)
BytesNat(b) ==
    IF b = <<>> THEN 0
    ELSE BytesNat(SubSeq(b, 1, Len(b) - 1)) * 256 + b[Len(b)]

\* magnitude with bit k (0 = least significant) set, nothing else
MagPow2(k) ==
    [i \in 1..NB |-> IF NB - i = k \div 8 THEN 2 ^ (k % 8) ELSE 0]

\* lexicographic comparison of two magnitudes of the same length
RECURSIVE MagLess(_, _)
MagLess(a, b) ==
    IF a = <<>> THEN FALSE
    ELSE IF a[1] # b[1] THEN a[1] < b[1]
    ELSE MagLess(Tail(a), Tail(b))

\* magnitude + 1 and magnitude - 1 (carry and borrow run from the last byte)
RECURSIVE MagInc(_)
MagInc(a) ==
    IF a = <<>> THEN <<>>
    ELSE IF a[Len(a)] < 255 THEN [a EXCEPT ![Len(a)] = @ + 1]
    ELSE Append(MagInc(SubSeq(a, 1, Len(a) - 1)), 0)

RECURSIVE MagDec(_)
MagDec(a) ==
    IF a = <<>> THEN <<>>
    ELSE IF a[Len(a)] > 0 THEN [a EXCEPT ![Len(a)] = @ - 1]
    ELSE Append(MagDec(SubSeq(a, 1, Len(a) - 1)), 255)

MagIsZero(a) == \A i \in 1..Len(a) : a[i] = 0

\* a Python int
PyInt(isneg, m) == [cls |-> "int", neg |-> isneg /\ ~MagIsZero(m), mag |-> m]

\* a native number as a Python int
I(x) == PyInt(x < 0, NatBytes(IF x < 0 THEN -x ELSE x, NB))

\* a <= b on Python ints
IntLe(a, b) ==
    IF a.neg /\ ~b.neg THEN TRUE
    ELSE IF ~a.neg /\ b.neg THEN FALSE
    ELSE IF a.neg THEN ~MagLess(a.mag, b.mag)
    ELSE ~MagLess(b.mag, a.mag)

IntSucc(a) ==
    IF a.neg THEN PyInt(TRUE, MagDec(a.mag)) ELSE PyInt(FALSE, MagInc(a.mag))

IntPred(a) ==
    IF a.neg \/ MagIsZero(a.mag) THEN PyInt(TRUE, MagInc(a.mag))
    ELSE PyInt(FALSE, MagDec(a.mag))

IntNeg(a) == PyInt(~a.neg, a.mag)

\* -(1 << k), (1 << k) - 1
MinusPow2(k) == PyInt(TRUE, MagPow2(k))

Pow2Minus1(k) == PyInt(FALSE, MagDec(MagPow2(k)))

\* a Python int that is a small non-negative number, as a native number
IntNat(a) == BytesNat(LastBytes(a.mag, 3))

IsSmallNat(a) == ~a.neg /\ MagIsZero(SubSeq(a.mag, 1, NB - 3))

\* a declared length as a native number; a length of 2^24 or more is past
\* the end of every stream of the model, and so is 2^30
CappedNat(a) == IF IsSmallNat(a) THEN IntNat(a) ELSE 2 ^ 30

(***************************************************************************)
(* Results of calls: a value, or the exception the call raises            *)
(***************************************************************************)
None == [cls |-> "NoneType"]

Ok(v) == [err |-> "", val |-> v]

Raise(e) == [err |-> e, val |-> None]

\* the result of a decoder: the value, the number of bytes it reports as
\* consumed, and where it left the stream's cursor
Dec(v, k, p) == [err |-> "", val |-> v, n |-> k, pos |-> p]

DecRaise(e, p) == [err |-> e, val |-> None, n |-> 0, pos |-> p]

\* stream.read(k) of a BytesIO holding s with its cursor at p
Read(s, p, k) ==
    [data |-> SubSeq(s, p + 1, Min2(p + k, Len(s))),
     pos |-> Max2(p, Min2(p + k, Len(s)))]

\* Python values: every value is a record with its class in cls
PyBool(b) == [cls |-> "bool", truth |-> b]

PyBytes(b) == [cls |-> "bytes", b |-> b]

\* an instance of an AMQP type class holding _value
Obj(c, v) == [cls |-> c, value |-> v]

(***************************************************************************)
(* The bounded integer kinds                                               *)
(***************************************************************************)
IntKinds ==
    <<"SignedByte", "UnsignedByte", "SignedShort", "UnsignedShort",
      "SignedLong", "UnsignedLong", "SignedLongLong", "UnsignedLongLong">>

IsIntKind(c) == \E i \in 1..Len(IntKinds) : IntKinds[i] = c

IsSigned(c) ==
    c \in {"SignedByte", "SignedShort", "SignedLong", "SignedLongLong"}

STRUCT_SIZE(c) ==
    CASE c \in {"SignedByte", "UnsignedByte", "Bool"} -> 1
      [] c \in {"SignedShort", "UnsignedShort"} -> 2
      [] c \in {"SignedLong", "UnsignedLong", "Float"} -> 4
      [] c \in {"SignedLongLong", "UnsignedLongLong", "Double"} -> 8

MIN(c) == IF IsSigned(c) THEN MinusPow2(8 * STRUCT_SIZE(c) - 1) ELSE I(0)

MAX(c) ==
    IF IsSigned(c) THEN Pow2Minus1(8 * STRUCT_SIZE(c) - 1)
    ELSE Pow2Minus1(8 * STRUCT_SIZE(c))

\* int(value)
int(value) ==
    CASE value.cls = "int" -> value
      [] value.cls = "bool" -> I(IF value.truth THEN 1 ELSE 0)

\* validate of an integer kind that wraps an out-of-range value to MIN
IntValidateWrap(c, value) ==
    LET v == int(value) IN
    IF IntLe(MIN(c), v) /\ IntLe(v, MAX(c)) THEN Ok(v) ELSE Ok(MIN(c))

\* SignedByte.validate .. UnsignedLongLong.validate
IntValidate(c, value) ==
    LET v == int(value) IN
    IF IntLe(MIN(c), v) /\ IntLe(v, MAX(c)) THEN Ok(v) ELSE Raise("ValueError")

\* struct.pack of an in-range integer with the least significant byte first
StructPackIntLittle(c, v) ==
    LET w == STRUCT_SIZE(c) IN
    IF v.neg
    THEN LET m == LastBytes(MagDec(v.mag), w) IN
         [i \in 1..w |-> 255 - m[w + 1 - i]]
    ELSE [i \in 1..w |-> LastBytes(v.mag, w)[w + 1 - i]]

\* struct.pack('!' + fmt, v) of an in-range integer: big-endian, two's
\* complement when negative
StructPackInt(c, v) ==
    LET w == STRUCT_SIZE(c) IN
    IF v.neg
    THEN LET m == LastBytes(MagDec(v.mag), w) IN [i \in 1..w |-> 255 - m[i]]
    ELSE LastBytes(v.mag, w)

\* struct.unpack('!' + fmt, raw)[0] of exactly STRUCT_SIZE bytes
StructUnpackInt(c, raw) ==
    LET w == STRUCT_SIZE(c) IN
    IF IsSigned(c) /\ raw[1] >= 128
    THEN PyInt(TRUE, MagInc(ZeroBytes(NB - w) \o [i \in 1..w |-> 255 - raw[i]]))
    ELSE PyInt(FALSE, ZeroBytes(NB - w) \o raw)

\* BaseType.unpack for the struct-based integer kinds
IntUnpack(c, s, p) ==
    LET r == Read(s, p, STRUCT_SIZE(c)) IN
    IF Len(r.data) # STRUCT_SIZE(c) THEN DecRaise("struct.error", r.pos)
    ELSE Dec(StructUnpackInt(c, r.data), STRUCT_SIZE(c), r.pos)

(***************************************************************************)
(* Bits                                                                    *)
(***************************************************************************)
\* the bits (most significant first) of a non-negative native number, width w
RECURSIVE NatBits(_, _)
NatBits(x, w) ==
    IF w = 0 THEN <<>> ELSE Append(NatBits(x \div 2, w - 1), x % 2)

\* int(bits, 2)
RECURSIVE BitsNat(_)
BitsNat(b) ==
    IF b = <<>> THEN 0
    ELSE BitsNat(SubSeq(b, 1, Len(b) - 1)) * 2 + b[Len(b)]

\* a bit string whose length is a multiple of 8, as bytes
BitsBytes(b) ==
    [i \in 1..(Len(b) \div 8) |-> BitsNat(SubSeq(b, 8 * i - 7, 8 * i))]

RECURSIVE BytesBits(_)
BytesBits(b) ==
    IF b = <<>> THEN <<>> ELSE NatBits(b[1], 8) \o BytesBits(Tail(b))

(***************************************************************************)
(* Text                                                                    *)
(***************************************************************************)
IsCont(x, lo, hi) == x >= lo /\ x <= hi

\* the length of the UTF-8 sequence a byte starts; 0 for a byte that starts
\* none (a continuation byte, 0xC0, 0xC1, 0xF5 and above)
Utf8Len(c) ==
    CASE c <= 127 -> 1
      [] c >= 194 /\ c <= 223 -> 2
      [] c >= 224 /\ c <= 239 -> 3
      [] c >= 240 /\ c <= 244 -> 4
      [] OTHER -> 0

\* the range of the byte that follows lead byte c
Utf8SecondLo(c) == IF c = 224 THEN 160 ELSE IF c = 240 THEN 144 ELSE 128

Utf8SecondHi(c) == IF c = 237 THEN 159 ELSE IF c = 244 THEN 143 ELSE 191

\* whether b.decode('utf-8') succeeds: every lead byte is followed by its
\* continuation bytes, and every continuation byte belongs to a lead byte
Utf8Ok(b) ==
    \A i \in 1..Len(b) :
        IF IsCont(b[i], 128, 191)
        THEN \E k \in 1..3 :
                /\ i - k >= 1
                /\ Utf8Len(b[i - k]) > k
                /\ \A m \in 1..(k - 1) : IsCont(b[i - m], 128, 191)
        ELSE /\ Utf8Len(b[i]) > 0
             /\ i + Utf8Len(b[i]) - 1 <= Len(b)
             /\ \A m \in 1..(Utf8Len(b[i]) - 1) :
                   IsCont(b[i + m],
                          IF m = 1 THEN Utf8SecondLo(b[i]) ELSE 128,
                          IF m = 1 THEN Utf8SecondHi(b[i]) ELSE 191)

\* a str, kept as its UTF-8 encoding
PyStr(b) == [cls |-> "str", b |-> b]

(***************************************************************************)
(* Bool, the strings, Void                                                 *)
(***************************************************************************)
\* bool(value)
bool(value) ==
    CASE value.cls = "bool" -> value.truth
      [] value.cls = "int" -> ~MagIsZero(value.mag)
      [] value.cls = "NoneType" -> FALSE
      [] value.cls \in {"bytes", "str"} -> value.b # <<>>

BoolValidate(value) == Ok(PyBool(bool(value)))

\* struct.pack('!?', value)
BoolPack(v) == <<IF v.truth THEN 1 ELSE 0>>

BoolUnpack(s, p) ==
    LET r == Read(s, p, 1) IN
    IF Len(r.data) # 1 THEN DecRaise("struct.error", r.pos)
    ELSE Dec(PyBool(r.data[1] # 0), 1, r.pos)

\* ShortStr.__init__ and LongStr.__init__: a str is encoded first
EncodeIfStr(value) == IF value.cls = "str" THEN PyBytes(value.b) ELSE value

\* ShortStr.validate and LongStr.validate
StrValidate(c, value) ==
    IF value.cls # "bytes" THEN Raise("AttributeError")
    ELSE IF ~Utf8Ok(value.b) THEN Raise("ValueError")
    ELSE IF ~IntLe(I(Len(value.b)),
                   MAX(IF c = "ShortStr" THEN "UnsignedByte" ELSE "UnsignedLong"))
    THEN Raise("ValueError")
    ELSE Ok(value)

ByteArrayValidate(value) ==
    IF value.cls # "bytes" THEN Raise("ValueError")
    ELSE IF ~IntLe(I(Len(value.b)), MAX("UnsignedLong")) THEN Raise("ValueError")
    ELSE Ok(value)

\* UnsignedByte(len(value)).pack() + value
ShortStrPack(v) == StructPackInt("UnsignedByte", I(Len(v.b))) \o v.b

\* UnsignedLong(len(value)).pack() + value, of LongStr and of ByteArray
LongStrPack(v) == StructPackInt("UnsignedLong", I(Len(v.b))) \o v.b

\* ShortStr.unpack: the length byte, then read(str_len), whose length is not
\* checked; the constructor validates what was read
ShortStrUnpack(s, p) ==
    LET h == IntUnpack("UnsignedByte", s, p) IN
    IF h.err # "" THEN h
    ELSE LET k == IntNat(h.val)
             r == Read(s, h.pos, k)
             v == StrValidate("ShortStr", PyBytes(r.data))
         IN IF v.err # "" THEN DecRaise(v.err, r.pos)
            ELSE Dec(Obj("ShortStr", v.val), h.n + k, r.pos)

\* LongStr.unpack and ByteArray.unpack: a 4-byte length, read(str_len) and
\* assert len(value) == str_len
LongUnpack(c, s, p) ==
    LET h == IntUnpack("UnsignedLong", s, p) IN
    IF h.err # "" THEN h
    ELSE IF ~IsSmallNat(h.val) THEN DecRaise("AssertionError", Len(s))
    ELSE LET k == IntNat(h.val)
             r == Read(s, h.pos, k)
             v == IF c = "LongStr" THEN StrValidate(c, PyBytes(r.data))
                  ELSE ByteArrayValidate(PyBytes(r.data))
         IN IF Len(r.data) # k THEN DecRaise("AssertionError", r.pos)
            ELSE IF v.err # "" THEN DecRaise(v.err, r.pos)
            ELSE Dec(Obj(c, v.val), h.n + k, r.pos)

VoidValidate(value) ==
    IF value.cls # "NoneType" THEN Raise("TypeError") ELSE Ok(value)

(***************************************************************************)
(* Decimal                                                                 *)
(***************************************************************************)
\* magnitude * k + c for a small k (the carry out of the first byte is lost)
RECURSIVE MagMulSmall(_, _, _)
MagMulSmall(a, k, c) ==
    IF a = <<>> THEN <<>>
    ELSE LET x == a[Len(a)] * k + c IN
         Append(MagMulSmall(SubSeq(a, 1, Len(a) - 1), k, x \div 256), x % 256)

\* quotient and remainder of a magnitude by a small d, from remainder r
RECURSIVE MagDivSmall(_, _, _)
MagDivSmall(a, d, r) ==
    IF a = <<>> THEN [q |-> <<>>, r |-> r]
    ELSE LET x == r * 256 + a[1]
             rest == MagDivSmall(Tail(a), d, x % d)
         IN [q |-> <<x \div d>> \o rest.q, r |-> rest.r]

\* a decimal.Decimal: as_tuple() is (sign, digits of coef, exponent); special
\* is "" for a finite value, "F" for Infinity, "n" for NaN, "N" for sNaN
PyDecimal(sign, coef, exponent, special) ==
    [cls |-> "decimal.Decimal", sign |-> sign, coef |-> coef,
     exponent |-> exponent, special |-> special]

\* coef * 10 ^ e for e >= 0; the scaling stops once the magnitude is past
\* every bound it is compared with
RECURSIVE ScaleUp(_, _)
ScaleUp(m, e) ==
    IF e = 0 \/ MagIsZero(m) \/ ~MagIsZero(SubSeq(m, 1, 2)) THEN m
    ELSE ScaleUp(MagMulSmall(m, 10, 0), e - 1)

\* MIN_VALUE <= value <= MAX_VALUE, once sign and exponent have passed
DecimalInRange(value) ==
    LET v == PyInt(FALSE, ScaleUp(value.coef.mag, value.exponent)) IN
    IntLe(MIN("UnsignedLong"), v) /\ IntLe(v, MAX("UnsignedLong"))

\* Decimal.validate
DecimalValidate(value) ==
    IF value.cls # "decimal.Decimal" THEN Raise("ValueError")
    ELSE IF value.special = "N" /\ value.sign = 0 THEN Raise("TypeError")
    ELSE IF /\ value.sign = 0
            /\ value.special = ""
            /\ IntLe(MIN("UnsignedByte"), I(value.exponent))
            /\ IntLe(I(value.exponent), MAX("UnsignedByte"))
            /\ DecimalInRange(value)
    THEN Ok(value)
    ELSE Raise("ValueError")

\* Decimal.pack: UnsignedByte(-exponent).pack() + UnsignedLong(value).pack()
DecimalPack(v) ==
    LET coef == PyInt(v.sign = 1, v.coef.mag)
        e == IntValidate("UnsignedByte", I(-v.exponent))
        m == IntValidate("UnsignedLong", coef)
    IN IF e.err # "" THEN e
       ELSE IF m.err # "" THEN m
       ELSE Ok(StructPackInt("UnsignedByte", e.val)
                 \o StructPackInt("UnsignedLong", m.val))

\* decimal.Decimal(value) / decimal.Decimal(10 ** exponent): the quotient is
\* exact, with exponent 0 when 10 ** exponent divides value and a negative
\* exponent otherwise
RECURSIVE DecimalQuotient(_, _)
DecimalQuotient(m, e) ==
    IF e = 0 \/ MagIsZero(m) THEN PyDecimal(0, PyInt(FALSE, m), 0, "")
    ELSE LET d == MagDivSmall(m, 10, 0) IN
         IF d.r # 0 THEN PyDecimal(0, PyInt(FALSE, m), -e, "")
         ELSE DecimalQuotient(d.q, e - 1)

\* Decimal.unpack
DecimalUnpack(s, p) ==
    LET e == IntUnpack("UnsignedByte", s, p) IN
    IF e.err # "" THEN e
    ELSE LET m == IntUnpack("UnsignedLong", s, e.pos) IN
         IF m.err # "" THEN m
         ELSE LET v == DecimalValidate(DecimalQuotient(m.val.mag, IntNat(e.val)))
              IN IF v.err # "" THEN DecRaise(v.err, m.pos)
                 ELSE Dec(Obj("Decimal", v.val), e.n + m.n, m.pos)

(***************************************************************************)
(* Timestamp                                                               *)
(***************************************************************************)
\* a naive datetime.datetime, as whole seconds t from 1970-01-01 00:00:00 and
\* microseconds us; the local time zone is taken to be UTC
\* a datetime: t whole seconds since the epoch, a Python int, and us
\* microseconds; the local zone is UTC
PyDatetime(t, us) == [cls |-> "datetime", t |-> I(t), us |-> us]

\* the stamp of datetime.max, 9999-12-31 23:59:59: 253402300799
MaxStamp == PyInt(FALSE, ZeroBytes(NB - 5) \o <<58, 255, 244, 65, 127>>)

\* Timestamp.validate: value.year < 1970 is rejected
TimestampValidate(value) ==
    IF value.cls # "datetime" THEN Raise("ValueError")
    ELSE IF value.t.neg THEN Raise("ValueError")
    ELSE Ok(value)

\* int(value.timestamp()).  The stamp is the double nearest to t + us / 1e6:
\* below 2^34 seconds it is under t + 1 and int() drops the microseconds;
\* from 2^34 seconds on a double has too few bits for the microseconds, and
\* the last ones before the next second give t + 1.0
IntStamp(value) ==
    IF CASE ~IntLe(PyInt(FALSE, MagPow2(34)), value.t) -> FALSE
         [] ~IntLe(PyInt(FALSE, MagPow2(35)), value.t) -> value.us >= 999999
         [] ~IntLe(PyInt(FALSE, MagPow2(36)), value.t) -> value.us >= 999997
         [] ~IntLe(PyInt(FALSE, MagPow2(37)), value.t) -> value.us >= 999993
         [] OTHER -> value.us >= 999985
    THEN IntSucc(value.t)
    ELSE value.t

\* Timestamp.pack: UnsignedLongLong(self.value.timestamp()).pack(), where
\* UnsignedLongLong.validate takes int() of the float stamp
TimestampPack(v) ==
    LET stamp == IntValidate("UnsignedLongLong", IntStamp(v)) IN
    IF stamp.err # "" THEN stamp
    ELSE Ok(StructPackInt("UnsignedLongLong", stamp.val))

\* Timestamp.unpack: datetime.datetime.fromtimestamp(value), which raises
\* ValueError past year 9999 and OverflowError past the platform's time_t
TimestampUnpack(s, p) ==
    LET h == IntUnpack("UnsignedLongLong", s, p) IN
    IF h.err # "" THEN h
    ELSE IF ~IntLe(h.val, MaxStamp)
    THEN DecRaise(IF IntLe(h.val, MAX("SignedLongLong"))
                  THEN "ValueError" ELSE "OverflowError", h.pos)
    ELSE Dec(Obj("Timestamp", [cls |-> "datetime", t |-> h.val, us |-> 0]),
             h.n, h.pos)

(***************************************************************************)
(* Float and Double                                                        *)
(***************************************************************************)
\* a Python float: kind is "zero", "fin", "inf" or "nan"; a finite non-zero
\* value is (-1)^neg * 1.frac * 2^exp in binary, frac without trailing zeros
PyFloat(kind, isneg, e, frac) ==
    [cls |-> "float", kind |-> kind, neg |-> isneg, exp |-> e, frac |-> frac]

RECURSIVE StripZeros(_)
StripZeros(b) ==
    IF b = <<>> \/ b[Len(b)] = 1 THEN b
    ELSE StripZeros(SubSeq(b, 1, Len(b) - 1))

Ones(n) == [i \in 1..n |-> 1]

Zeros(n) == [i \in 1..n |-> 0]

\* the index of the first 1 of a bit string that has one
RECURSIVE FirstOne(_)
FirstOne(b) == IF b[1] = 1 THEN 1 ELSE 1 + FirstOne(Tail(b))

\* frac at w bits, round-half-even: the bits and the carry into the exponent
RoundFrac(frac, w) ==
    IF Len(frac) <= w THEN [bits |-> frac \o Zeros(w - Len(frac)), carry |-> 0]
    ELSE LET keep == SubSeq(frac, 1, w)
             up == frac[w + 1] = 1 /\ (Len(frac) > w + 1 \/ keep[w] = 1)
         IN IF ~up THEN [bits |-> keep, carry |-> 0]
            ELSE IF keep = Ones(w) THEN [bits |-> Zeros(w), carry |-> 1]
            ELSE [bits |-> NatBits(BitsNat(keep) + 1, w), carry |-> 0]

\* struct.pack('!f', v) with ebits = 8, fbits = 23 and struct.pack('!d', v)
\* with ebits = 11, fbits = 52, for v zero, infinite, NaN or in the normal
\* range; a finite value too large for the format raises OverflowError
StructPackFloat(v, ebits, fbits) ==
    LET bias == 2 ^ (ebits - 1) - 1
        sign == IF v.neg THEN 1 ELSE 0
        r == RoundFrac(v.frac, fbits)
        e == v.exp + r.carry
    IN CASE v.kind = "zero" -> Ok(BitsBytes(<<sign>> \o Zeros(ebits + fbits)))
         [] v.kind = "inf" ->
              Ok(BitsBytes(<<sign>> \o Ones(ebits) \o Zeros(fbits)))
         [] v.kind = "nan" ->
              Ok(BitsBytes(<<sign>> \o Ones(ebits) \o <<1>> \o Zeros(fbits - 1)))
         [] v.kind = "fin" ->
              IF e > bias THEN Raise("OverflowError")
              ELSE Ok(BitsBytes(<<sign>> \o NatBits(e + bias, ebits) \o r.bits))

\* struct.unpack('!f', raw)[0] and struct.unpack('!d', raw)[0]
StructUnpackFloat(raw, ebits, fbits) ==
    LET bits == BytesBits(raw)
        bias == 2 ^ (ebits - 1) - 1
        isneg == bits[1] = 1
        e == BitsNat(SubSeq(bits, 2, 1 + ebits))
        f == SubSeq(bits, 2 + ebits, 1 + ebits + fbits)
    IN IF e = 2 ^ ebits - 1
       THEN IF f = Zeros(fbits) THEN PyFloat("inf", isneg, 0, <<>>)
            ELSE PyFloat("nan", isneg, 0, <<>>)
       ELSE IF e = 0
       THEN IF f = Zeros(fbits) THEN PyFloat("zero", isneg, 0, <<>>)
            ELSE PyFloat("fin", isneg, 1 - bias - FirstOne(f),
                         StripZeros(SubSeq(f, FirstOne(f) + 1, fbits)))
       ELSE PyFloat("fin", isneg, e - bias, StripZeros(f))

EBITS(c) == IF c = "Float" THEN 8 ELSE 11

FBITS(c) == IF c = "Float" THEN 23 ELSE 52

\* Float.validate and Double.validate: the value after a pack/unpack at the
\* kind's width; NaN and a value too large for the width are rejected
FloatValidate(c, value) ==
    IF value.cls # "float" THEN Raise("TypeError")
    ELSE IF value.kind = "nan" THEN Raise("ValueError")
    ELSE LET b == StructPackFloat(value, EBITS(c), FBITS(c)) IN
         IF b.err # "" THEN Raise("ValueError")
         ELSE Ok(StructUnpackFloat(b.val, EBITS(c), FBITS(c)))

\* BaseType.unpack for Float and Double
FloatUnpack(c, s, p) ==
    LET r == Read(s, p, STRUCT_SIZE(c)) IN
    IF Len(r.data) # STRUCT_SIZE(c) THEN DecRaise("struct.error", r.pos)
    ELSE Dec(StructUnpackFloat(r.data, EBITS(c), FBITS(c)), STRUCT_SIZE(c), r.pos)

(***************************************************************************)
(* The type classes: construction, inference, Table and Array              *)
(***************************************************************************)
AmqpClasses ==
    {"Bool", "SignedByte", "UnsignedByte", "SignedShort", "UnsignedShort",
     "SignedLong", "UnsignedLong", "SignedLongLong", "UnsignedLongLong",
     "Float", "Double", "Decimal", "ShortStr", "LongStr", "Void", "ByteArray",
     "Timestamp", "Table", "Array"}

\* isinstance(value, BaseType)
IsBaseType(value) == value.cls \in AmqpClasses

\* TABLE_LABEL of a class, as the byte's number; NoLabel stands for None
NoLabel == 0 - 1

TABLE_LABEL(c) ==
    CASE c = "Bool" -> 116
      [] c = "SignedByte" -> 98
      [] c = "UnsignedByte" -> 66
      [] c = "SignedShort" -> 115
      [] c = "UnsignedShort" -> 117
      [] c = "SignedLong" -> 73
      [] c = "UnsignedLong" -> 105
      [] c = "SignedLongLong" -> 108
      [] c = "UnsignedLongLong" -> NoLabel
      [] c = "Float" -> 102
      [] c = "Double" -> 100
      [] c = "Decimal" -> 68
      [] c = "ShortStr" -> NoLabel
      [] c = "LongStr" -> 83
      [] c = "Void" -> 86
      [] c = "ByteArray" -> 120
      [] c = "Timestamp" -> 84
      [] c = "Table" -> 70
      [] c = "Array" -> 65

\* TABLE_LABEL_TO_CLS[label]: the classes whose label is not None; "" stands
\* for a KeyError
TABLE_LABEL_TO_CLS(label) ==
    IF \E c \in AmqpClasses : TABLE_LABEL(c) # NoLabel /\ <<TABLE_LABEL(c)>> = label
    THEN CHOOSE c \in AmqpClasses : <<TABLE_LABEL(c)>> = label
    ELSE ""

\* a dict, as its items in insertion order, and a list
PyDict(items) == [cls |-> "dict", items |-> items]

PyList(items) == [cls |-> "list", items |-> items]

\* a == b for two keys of a Table's dict (ShortStr.__eq__ and __hash__ go by
\* the bytes); a key that is a plain int is equal to the same int only
KeyEq(a, b) ==
    IF a.cls = "int" \/ b.cls = "int" THEN a = b
    ELSE a.cls = b.cls /\ a.value.b = b.value.b

\* d[key] = value on a dict's items: an equal key keeps its place
DictSet(items, key, value) ==
    IF \E i \in 1..Len(items) : KeyEq(items[i][1], key)
    THEN [i \in 1..Len(items) |->
            IF KeyEq(items[i][1], key) THEN <<items[i][1], value>> ELSE items[i]]
    ELSE Append(items, <<key, value>>)

RECURSIVE New(_, _)
RECURSIVE ValueOf(_)
RECURSIVE py_type_to_amqp_type(_)
RECURSIVE TableValidateItems(_, _)
RECURSIVE ArrayValidateItems(_, _)

\* the value property: _value, and for a Table or an Array the plain dict or
\* list of its members' values
ValueOf(o) ==
    CASE o.cls = "Table" ->
           PyDict([i \in 1..Len(o.value.items) |->
                     <<ValueOf(o.value.items[i][1]), ValueOf(o.value.items[i][2])>>])
      [] o.cls = "Array" ->
           PyList([i \in 1..Len(o.value.items) |-> ValueOf(o.value.items[i])])
      [] OTHER -> o.value

\* _py_type_to_amqp_int: the first of the seven kinds that accepts the value
RECURSIVE py_type_to_amqp_int(_, _)
\* the kind tried has accepted the value, or the next kind is tried; the
\* seventh kind's exception is the call's
FirstKind(r, value, i) ==
    IF r.err = "" THEN r
    ELSE IF i = 7 THEN r
    ELSE py_type_to_amqp_int(value, i + 1)

\* _py_type_to_amqp_int that takes the widest signed kind whatever the value
py_type_to_amqp_intWidest(value, i) == New("SignedLongLong", value)

py_type_to_amqp_int(value, i) == FirstKind(New(IntKinds[i], value), value, i)

\* _py_type_to_amqp_str_bytes
py_type_to_amqp_str_bytes(value) ==
    IF value.cls = "bytes" /\ ~Utf8Ok(value.b) THEN New("ByteArray", value)
    ELSE New("LongStr", value)

\* _py_type_to_amqp_float
FloatOrDouble(r, value) ==
    IF r.err = "ValueError" THEN New("Double", value) ELSE r

py_type_to_amqp_float(value) == FloatOrDouble(New("Float", value), value)

\* _py_type_to_amqp_type, dispatched on the value's class
py_type_to_amqp_type(value) ==
    CASE value.cls = "bool" -> New("Bool", value)
      [] value.cls \in {"str", "bytes"} -> py_type_to_amqp_str_bytes(value)
      [] value.cls = "float" -> py_type_to_amqp_float(value)
      [] value.cls = "int" -> py_type_to_amqp_int(value, 1)
      [] value.cls = "decimal.Decimal" -> New("Decimal", value)
      [] value.cls = "datetime" -> New("Timestamp", value)
      [] value.cls = "dict" -> New("Table", value)
      [] value.cls = "list" -> New("Array", value)
      [] value.cls = "NoneType" -> New("Void", value)
      [] OTHER -> Raise("ValueError")

\* the loop of Table.validate over value.items(), from the items validated
\* so far
TableValidateItem(items, validated, key, value) ==
    IF key.err # "" THEN key
    ELSE IF value.err # "" THEN value
    ELSE TableValidateItems(Tail(items), DictSet(validated, key.val, value.val))

TableValidateItems(items, validated) ==
    IF items = <<>> THEN Ok(PyDict(validated))
    ELSE TableValidateItem(items, validated,
                           IF items[1][1].cls = "ShortStr" THEN Ok(items[1][1])
                           ELSE New("ShortStr", items[1][1]),
                           IF IsBaseType(items[1][2]) THEN Ok(items[1][2])
                           ELSE py_type_to_amqp_type(items[1][2]))

\* Table.validate
TableValidate(value) ==
    IF value.cls # "dict" THEN Raise("AttributeError")
    ELSE TableValidateItems(value.items, <<>>)

\* the loop of Array.validate
ArrayValidateItem(items, validated, item) ==
    IF item.err # "" THEN item
    ELSE ArrayValidateItems(Tail(items), Append(validated, item.val))

ArrayValidateItems(items, validated) ==
    IF items = <<>> THEN Ok(PyList(validated))
    ELSE ArrayValidateItem(items, validated,
                           IF IsBaseType(items[1]) THEN Ok(items[1])
                           ELSE py_type_to_amqp_type(items[1]))

\* Array.validate
ArrayValidate(value) ==
    IF value.cls # "list" THEN Raise("TypeError")
    ELSE ArrayValidateItems(value.items, <<>>)

\* cls.validate(value)
validate(c, value) ==
    CASE c = "Bool" -> BoolValidate(value)
      [] IsIntKind(c) -> IntValidate(c, value)
      [] c \in {"Float", "Double"} -> FloatValidate(c, value)
      [] c = "Decimal" -> DecimalValidate(value)
      [] c \in {"ShortStr", "LongStr"} -> StrValidate(c, value)
      [] c = "Void" -> VoidValidate(value)
      [] c = "ByteArray" -> ByteArrayValidate(value)
      [] c = "Timestamp" -> TimestampValidate(value)
      [] c = "Table" -> TableValidate(value)
      [] c = "Array" -> ArrayValidate(value)

\* the default of the __init__ of Table, Array and Decimal for value=None
Defaulted(c, value) ==
    IF value.cls # "NoneType" THEN value
    ELSE CASE c = "Table" -> PyDict(<<>>)
           [] c = "Array" -> PyList(<<>>)
           [] c = "Decimal" -> PyDecimal(0, I(0), 0, "")
           [] OTHER -> value

\* the __init__ of ShortStr and LongStr encodes a str
Encoded(c, value) ==
    IF c \in {"ShortStr", "LongStr"} THEN EncodeIfStr(value) ELSE value

\* BaseType.__init__: if isinstance(value, BaseType): value = value.value
Unwrapped(value) == IF IsBaseType(value) THEN ValueOf(value) ELSE value

\* BaseType.__init__: self._value = self.validate(value)
Validated(c, r) == IF r.err # "" THEN r ELSE Ok(Obj(c, r.val))

\* cls(value): the class's __init__, then BaseType.__init__, which takes the
\* value of a BaseType argument and validates
New(c, value) == Validated(c, validate(c, Unwrapped(Encoded(c, Defaulted(c, value)))))

\* the value stored by __setitem__ and insert: an instance of a type class
\* as it is, a plain value as the kind inferred for it
Stored(value) ==
    IF IsBaseType(value) THEN Ok(value) ELSE py_type_to_amqp_type(value)

\* the key of Table.__setitem__: a str or bytes key becomes a ShortStr
TableKey(key) ==
    IF key.cls \in {"str", "bytes"} THEN New("ShortStr", key) ELSE Ok(key)

\* Table.__setitem__: self._value[key] = value
TableSetItem(self, key, value) ==
    IF key.err # "" THEN key
    ELSE IF value.err # "" THEN value
    ELSE Ok(Obj("Table", PyDict(DictSet(self.value.items, key.val, value.val))))

\* Array.__setitem__ at an index counted from 0: self._value[key] = value
ArraySetItem(self, key, value) ==
    IF value.err # "" THEN value
    ELSE IF key >= Len(self.value.items) THEN Raise("IndexError")
    ELSE Ok(Obj("Array", PyList([self.value.items EXCEPT ![key + 1] = value.val])))

\* Array.insert at an index counted from 0: list.insert puts the value at the
\* end when the index is past it
ArrayInsert(self, index, value) ==
    IF value.err # "" THEN value
    ELSE Ok(Obj("Array",
                PyList(SubSeq(self.value.items, 1, index)
                       \o <<value.val>>
                       \o SubSeq(self.value.items, index + 1,
                                 Len(self.value.items)))))

\* the items of a dict without the item of a key
DictDel(items, key) ==
    SelectSeq(items, LAMBDA item : ~KeyEq(item[1], key))

\* Table.__delitem__: del self._value[key]
TableDelItem(self, key) ==
    IF key.err # "" THEN key
    ELSE IF ~\E i \in 1..Len(self.value.items) :
                KeyEq(self.value.items[i][1], key.val)
    THEN Raise("KeyError")
    ELSE Ok(Obj("Table", PyDict(DictDel(self.value.items, key.val))))

\* Array.__delitem__ at an index counted from 0: del self._value[key]
ArrayDelItem(self, key) ==
    IF key >= Len(self.value.items) THEN Raise("IndexError")
    ELSE Ok(Obj("Array",
                PyList(SubSeq(self.value.items, 1, key)
                       \o SubSeq(self.value.items, key + 2,
                                 Len(self.value.items)))))

\* an object with its identity: the names bound to it and the composites
\* that store it hold the same object
Identified(o, id) == [cls |-> o.cls, value |-> o.value, id |-> id]

RECURSIVE Aliased(_, _)
\* a value seen through its references: wherever it stores the object of
\* o's identity, what is seen there is o
Aliased(v, o) ==
    IF "id" \in DOMAIN v
    THEN IF v.id = o.id THEN o ELSE v
    ELSE CASE v.cls = "Table" ->
                Obj("Table",
                    PyDict([i \in 1..Len(v.value.items) |->
                              <<v.value.items[i][1],
                                Aliased(v.value.items[i][2], o)>>]))
           [] v.cls = "Array" ->
                Obj("Array",
                    PyList([i \in 1..Len(v.value.items) |->
                              Aliased(v.value.items[i], o)]))
           [] OTHER -> v

(***************************************************************************)
(* pack, unpack, to_bytestream, from_bytestream                            *)
(***************************************************************************)
RECURSIVE pack(_)
RECURSIVE TablePackItems(_)
RECURSIVE ArrayPackItems(_)

\* the body of the loop of Table.pack: the key, the value's label, the value
TablePackItem(key, label, value, rest) ==
    IF key.err # "" THEN key
    ELSE IF label = NoLabel THEN Raise("TypeError")
    ELSE IF value.err # "" THEN value
    ELSE IF rest.err # "" THEN rest
    ELSE Ok(key.val \o <<label>> \o value.val \o rest.val)

\* the loop of Table.pack over self._value.items()
TablePackItems(items) ==
    IF items = <<>> THEN Ok(<<>>)
    ELSE TablePackItem(pack(items[1][1]), TABLE_LABEL(items[1][2].cls),
                       pack(items[1][2]), TablePackItems(Tail(items)))

\* the body of the loop of Array.pack
ArrayPackItem(label, value, rest) ==
    IF label = NoLabel THEN Raise("TypeError")
    ELSE IF value.err # "" THEN value
    ELSE IF rest.err # "" THEN rest
    ELSE Ok(<<label>> \o value.val \o rest.val)

\* the loop of Array.pack over self._value
ArrayPackItems(items) ==
    IF items = <<>> THEN Ok(<<>>)
    ELSE ArrayPackItem(TABLE_LABEL(items[1].cls), pack(items[1]),
                       ArrayPackItems(Tail(items)))

\* the buffer behind its length: UnsignedLong(len(buffer)).pack() + buffer
WithLength(buffer) ==
    IF buffer.err # "" THEN buffer
    ELSE Ok(StructPackInt("UnsignedLong", I(Len(buffer.val))) \o buffer.val)

\* self.pack(): the bytes, or the exception raised while packing
pack(o) ==
    CASE o.cls = "Bool" -> Ok(BoolPack(o.value))
      [] IsIntKind(o.cls) -> Ok(StructPackInt(o.cls, o.value))
      [] o.cls \in {"Float", "Double"} ->
           StructPackFloat(o.value, EBITS(o.cls), FBITS(o.cls))
      [] o.cls = "Decimal" -> DecimalPack(o.value)
      [] o.cls = "ShortStr" -> Ok(ShortStrPack(o.value))
      [] o.cls \in {"LongStr", "ByteArray"} -> Ok(LongStrPack(o.value))
      [] o.cls = "Void" -> Ok(<<>>)
      [] o.cls = "Timestamp" -> TimestampPack(o.value)
      [] o.cls = "Table" -> WithLength(TablePackItems(o.value.items))
      [] o.cls = "Array" -> WithLength(ArrayPackItems(o.value.items))

RECURSIVE unpack(_, _, _)
RECURSIVE TableUnpackLoop(_, _, _, _, _)
RECURSIVE ArrayUnpackLoop(_, _, _, _, _)

\* cls(value) of an unpacked value u, keeping u's count and cursor
Constructed(o, u) ==
    IF o.err # "" THEN DecRaise(o.err, u.pos) ELSE Dec(o.val, u.n, u.pos)

\* value, consumed = amqptype.unpack(stream) followed by amqptype(value)
UnpackedAs(amqptype, u) ==
    IF u.err # "" THEN u ELSE Constructed(New(amqptype, u.val), u)

\* a lookup of the label that takes an unknown label for the label of Void
LabelledAsVoid(amqptype, s, label) ==
    IF amqptype = "" THEN UnpackedAs("Void", unpack("Void", s, label.pos))
    ELSE UnpackedAs(amqptype, unpack(amqptype, s, label.pos))

\* amqptype = TABLE_LABEL_TO_CLS[label], then the member of that class
LabelledAs(amqptype, s, label) ==
    IF amqptype = "" THEN DecRaise("KeyError", label.pos)
    ELSE UnpackedAs(amqptype, unpack(amqptype, s, label.pos))

\* label = stream.read(1) and the member it announces
LabelledMember(s, label) == LabelledAs(TABLE_LABEL_TO_CLS(label.data), s, label)

\* result[key] = amqptype(value) and the next pass of the loop
TableUnpackStore(result, consumed, bound, s, key, member) ==
    IF member.err # "" THEN member
    ELSE TableUnpackLoop(DictSet(result, key.val, member.val),
                         consumed + key.n + 1 + member.n, bound, s, member.pos)

\* one pass of the loop, after key, x = ShortStr.unpack(stream)
TableUnpackKey(result, consumed, bound, s, key) ==
    IF key.err # "" THEN key
    ELSE TableUnpackStore(result, consumed, bound, s, key,
                          LabelledMember(s, Read(s, key.pos, 1)))

\* the while loop of Table.unpack: result so far, consumed so far, the bound
\* initial + table_len, the stream and its cursor
TableUnpackLoop(result, consumed, bound, s, p) ==
    IF ~(consumed < bound) THEN Dec(PyDict(result), consumed, p)
    ELSE TableUnpackKey(result, consumed, bound, s, ShortStrUnpack(s, p))

\* Table.unpack after table_len, initial = UnsignedLong.unpack(stream)
TableUnpackBody(s, h) ==
    IF h.err # "" THEN h
    ELSE TableUnpackLoop(<<>>, h.n, h.n + CappedNat(h.val), s, h.pos)

\* Table.unpack
TableUnpack(s, p) == TableUnpackBody(s, IntUnpack("UnsignedLong", s, p))

\* result.append(amqptype(value)) and the next pass of the loop
ArrayUnpackStore(result, consumed, bound, s, member) ==
    IF member.err # "" THEN member
    ELSE ArrayUnpackLoop(Append(result, member.val),
                         consumed + 1 + member.n, bound, s, member.pos)

\* the while loop of Array.unpack
ArrayUnpackLoop(result, consumed, bound, s, p) ==
    IF ~(consumed < bound) THEN Dec(PyList(result), consumed, p)
    ELSE ArrayUnpackStore(result, consumed, bound, s,
                          LabelledMember(s, Read(s, p, 1)))

\* Array.unpack after array_len, initial = UnsignedLong.unpack(stream)
ArrayUnpackBody(s, h) ==
    IF h.err # "" THEN h
    ELSE ArrayUnpackLoop(<<>>, h.n, h.n + CappedNat(h.val), s, h.pos)

\* Array.unpack
ArrayUnpack(s, p) == ArrayUnpackBody(s, IntUnpack("UnsignedLong", s, p))

\* cls.unpack(stream): the value and the number of bytes consumed
unpack(c, s, p) ==
    CASE c = "Bool" -> BoolUnpack(s, p)
      [] IsIntKind(c) -> IntUnpack(c, s, p)
      [] c \in {"Float", "Double"} -> FloatUnpack(c, s, p)
      [] c = "Decimal" -> DecimalUnpack(s, p)
      [] c = "ShortStr" -> ShortStrUnpack(s, p)
      [] c \in {"LongStr", "ByteArray"} -> LongUnpack(c, s, p)
      [] c = "Void" -> Dec(None, 0, p)
      [] c = "Timestamp" -> TimestampUnpack(s, p)
      [] c = "Table" -> TableUnpack(s, p)
      [] c = "Array" -> ArrayUnpack(s, p)

\* self.to_bytestream(stream): stream.write(self.pack()); the stream after
\* the call and the exception, if any
to_bytestream(o, s) ==
    LET b == pack(o) IN
    IF b.err # "" THEN [err |-> b.err, stream |-> s]
    ELSE [err |-> "", stream |-> s \o b.val]

\* cls.from_bytestream(stream): cls(value) of the unpacked value
from_bytestream(c, s, p) == UnpackedAs(c, unpack(c, s, p))

(***************************************************************************)
(* Equality                                                                *)
(***************************************************************************)
\* the value of a finite decimal.Decimal with exponent >= 0, as a Python int
DecimalInt(d) == PyInt(d.sign = 1, ScaleUp(d.coef.mag, d.exponent))

\* a == b on two Python floats
FloatEq(a, b) ==
    CASE a.kind = "nan" \/ b.kind = "nan" -> FALSE
      [] a.kind = "zero" -> b.kind = "zero"
      [] OTHER -> a = b

\* abs(a - b) <= datetime.timedelta(seconds=1)
WithinSecond(a, b) ==
    \/ a.t = b.t
    \/ IntSucc(a.t) = b.t /\ b.us <= a.us
    \/ IntSucc(b.t) = a.t /\ a.us <= b.us

RECURSIVE PyEq(_, _)
RECURSIVE DictEq(_, _)

\* a == b on two dicts that goes by the position of the items
DictEqInOrder(a, b) ==
    /\ Len(a.items) = Len(b.items)
    /\ \A i \in 1..Len(a.items) :
          /\ PyEq(a.items[i][1], b.items[i][1])
          /\ PyEq(a.items[i][2], b.items[i][2])

\* a == b on two dicts: the same keys, with equal values
DictEq(a, b) ==
    /\ Len(a.items) = Len(b.items)
    /\ \A i \in 1..Len(a.items) :
          \E j \in 1..Len(b.items) :
              /\ PyEq(a.items[i][1], b.items[j][1])
              /\ PyEq(a.items[i][2], b.items[j][2])

\* a == b.  BaseType.__eq__ compares _value with the other's _value (or with
\* the other itself when it is no BaseType); Timestamp.__eq__ allows one
\* second of difference
PyEq(a, b) ==
    IF IsBaseType(a)
    THEN IF a.cls = "Timestamp"
         THEN LET other == IF IsBaseType(b) THEN ValueOf(b) ELSE b IN
              /\ other.cls = "datetime"
              /\ WithinSecond(a.value, other)
         ELSE PyEq(a.value, IF IsBaseType(b) THEN b.value ELSE b)
    ELSE IF IsBaseType(b) THEN PyEq(b, a)
    ELSE CASE a.cls \in {"int", "bool"} /\ b.cls \in {"int", "bool"} ->
                int(a) = int(b)
           [] a.cls \in {"int", "bool"} /\ b.cls = "decimal.Decimal" ->
                b.special = "" /\ b.exponent >= 0 /\ int(a) = DecimalInt(b)
           [] a.cls = "decimal.Decimal" /\ b.cls \in {"int", "bool"} ->
                a.special = "" /\ a.exponent >= 0 /\ int(b) = DecimalInt(a)
           [] a.cls = "decimal.Decimal" /\ b.cls = "decimal.Decimal" ->
                /\ a.special = "" /\ b.special = ""
                /\ a.exponent >= 0 /\ b.exponent >= 0
                /\ DecimalInt(a) = DecimalInt(b)
           [] a.cls = "float" /\ b.cls = "float" -> FloatEq(a, b)
           [] a.cls = "bytes" /\ b.cls = "bytes" -> a.b = b.b
           [] a.cls = "str" /\ b.cls = "str" -> a.b = b.b
           [] a.cls = "NoneType" /\ b.cls = "NoneType" -> TRUE
           [] a.cls = "datetime" /\ b.cls = "datetime" -> a = b
           [] a.cls = "dict" /\ b.cls = "dict" -> DictEq(a, b)
           [] a.cls = "list" /\ b.cls = "list" ->
                /\ Len(a.items) = Len(b.items)
                /\ \A i \in 1..Len(a.items) : PyEq(a.items[i], b.items[i])
           [] OTHER -> FALSE

(***************************************************************************)
(* Runs of bits: Bool.pack_many and Bool.unpack_many                       *)
(***************************************************************************)
\* whether a Python value is true
Truthy(v) == IF IsBaseType(v) THEN bool(v.value) ELSE bool(v)

\* grouper(value, 8, False): the first group of 8, filled with False
FirstGroup(value) ==
    [i \in 1..8 |-> IF i <= Len(value) /\ Truthy(value[i]) THEN 1 ELSE 0]

\* Bool.pack_many that puts the first value of a group in the lowest bit
RECURSIVE pack_manyLowFirst(_)
pack_manyLowFirst(value) ==
    IF value = <<>> THEN <<>>
    ELSE <<BitsNat([i \in 1..8 |-> FirstGroup(value)[8 + 1 - i]])>>
           \o pack_manyLowFirst(SubSeq(value, 9, Len(value)))

\* Bool.pack_many: one UnsignedByte(int(total, 2)).pack() per group of 8
RECURSIVE pack_many(_)
pack_many(value) ==
    IF value = <<>> THEN <<>>
    ELSE <<BitsNat(FirstGroup(value))>>
           \o pack_many(SubSeq(value, 9, Len(value)))

RECURSIVE StripLeadingZeros(_)
StripLeadingZeros(b) ==
    IF b = <<>> \/ b[1] = 1 THEN b ELSE StripLeadingZeros(Tail(b))

\* bin(int.from_bytes(byte, byteorder='big'))[2:]
Bin(byte) ==
    LET b == StripLeadingZeros(BytesBits(byte)) IN
    IF b = <<>> THEN <<0>> ELSE b

\* bits.zfill(width)
zfill(bits, width) ==
    IF Len(bits) >= width THEN bits ELSE Zeros(width - Len(bits)) \o bits

\* _bytes2bits without the zfill that restores the leading zeroes
bytes2bitsNoFill(byte, reminder) ==
    LET bits == Bin(byte) IN SubSeq(bits, 1, Min2(reminder, Len(bits)))

\* _bytes2bits(byte, reminder)
bytes2bits(byte, reminder) ==
    LET to_fill == 8 * (reminder \div 8 + (IF reminder % 8 # 0 THEN 1 ELSE 0))
        bits == zfill(Bin(byte), to_fill)
    IN SubSeq(bits, 1, Min2(reminder, Len(bits)))

\* Bool.unpack_many(stream, number_of_bits): the list of Bool, and the cursor
unpack_many(s, p, number_of_bits) ==
    LET bytes_count == number_of_bits \div 8
                         + (IF number_of_bits % 8 # 0 THEN 1 ELSE 0)
        r == Read(s, p, bytes_count)
        bits == bytes2bits(r.data, number_of_bits)
    IN Dec([i \in 1..Len(bits) |-> Obj("Bool", PyBool(bits[i] = 1))],
           bytes_count, r.pos)

(***************************************************************************)
(* Methods: the generated classes, the dispatch table, BaseMethod          *)
(***************************************************************************)
\* the method classes of methods.py, in the order of METHODS
MethodNames ==
    <<"ConnectionStart", "ConnectionStartOK", "ConnectionSecure",
      "ConnectionSecureOK", "ConnectionTune", "ConnectionTuneOK",
      "ConnectionOpen", "ConnectionOpenOK", "ConnectionClose",
      "ConnectionCloseOK", "ChannelOpen", "ChannelOpenOK", "ChannelFlow",
      "ChannelFlowOK", "ChannelClose", "ChannelCloseOK", "ExchangeDeclare",
      "ExchangeDeclareOK", "ExchangeDelete", "ExchangeDeleteOK",
      "ExchangeBind", "ExchangeBindOK", "ExchangeUnbind", "ExchangeUnbindOK",
      "QueueDeclare", "QueueDeclareOK", "QueueBind", "QueueBindOK",
      "QueueUnbind", "QueueUnbindOK", "QueuePurge", "QueuePurgeOK",
      "QueueDelete", "QueueDeleteOK", "BasicQos", "BasicQosOK",
      "BasicConsume", "BasicConsumeOK", "BasicCancel", "BasicCancelOK",
      "BasicPublish", "BasicReturn", "BasicDeliver", "BasicGet",
      "BasicGetOK", "BasicGetEmpty", "BasicAck", "BasicReject",
      "BasicRecoverAsync", "BasicRecover", "BasicRecoverOK", "BasicNack",
      "TxSelect", "TxSelectOK", "TxCommit", "TxCommitOK", "TxRollback",
      "TxRollbackOK", "ConfirmSelect", "ConfirmSelectOK">>

\* method_type of each class: (class id, method id)
method_type(c) ==
    CASE c = "ConnectionStart" -> <<10, 10>>
      [] c = "ConnectionStartOK" -> <<10, 11>>
      [] c = "ConnectionSecure" -> <<10, 20>>
      [] c = "ConnectionSecureOK" -> <<10, 21>>
      [] c = "ConnectionTune" -> <<10, 30>>
      [] c = "ConnectionTuneOK" -> <<10, 31>>
      [] c = "ConnectionOpen" -> <<10, 40>>
      [] c = "ConnectionOpenOK" -> <<10, 41>>
      [] c = "ConnectionClose" -> <<10, 50>>
      [] c = "ConnectionCloseOK" -> <<10, 51>>
      [] c = "ChannelOpen" -> <<20, 10>>
      [] c = "ChannelOpenOK" -> <<20, 11>>
      [] c = "ChannelFlow" -> <<20, 20>>
      [] c = "ChannelFlowOK" -> <<20, 21>>
      [] c = "ChannelClose" -> <<20, 40>>
      [] c = "ChannelCloseOK" -> <<20, 41>>
      [] c = "ExchangeDeclare" -> <<40, 10>>
      [] c = "ExchangeDeclareOK" -> <<40, 11>>
      [] c = "ExchangeDelete" -> <<40, 20>>
      [] c = "ExchangeDeleteOK" -> <<40, 21>>
      [] c = "ExchangeBind" -> <<40, 30>>
      [] c = "ExchangeBindOK" -> <<40, 31>>
      [] c = "ExchangeUnbind" -> <<40, 40>>
      [] c = "ExchangeUnbindOK" -> <<40, 51>>
      [] c = "QueueDeclare" -> <<50, 10>>
      [] c = "QueueDeclareOK" -> <<50, 11>>
      [] c = "QueueBind" -> <<50, 20>>
      [] c = "QueueBindOK" -> <<50, 21>>
      [] c = "QueueUnbind" -> <<50, 50>>
      [] c = "QueueUnbindOK" -> <<50, 51>>
      [] c = "QueuePurge" -> <<50, 30>>
      [] c = "QueuePurgeOK" -> <<50, 31>>
      [] c = "QueueDelete" -> <<50, 40>>
      [] c = "QueueDeleteOK" -> <<50, 41>>
      [] c = "BasicQos" -> <<60, 10>>
      [] c = "BasicQosOK" -> <<60, 11>>
      [] c = "BasicConsume" -> <<60, 20>>
      [] c = "BasicConsumeOK" -> <<60, 21>>
      [] c = "BasicCancel" -> <<60, 30>>
      [] c = "BasicCancelOK" -> <<60, 31>>
      [] c = "BasicPublish" -> <<60, 40>>
      [] c = "BasicReturn" -> <<60, 50>>
      [] c = "BasicDeliver" -> <<60, 60>>
      [] c = "BasicGet" -> <<60, 70>>
      [] c = "BasicGetOK" -> <<60, 71>>
      [] c = "BasicGetEmpty" -> <<60, 72>>
      [] c = "BasicAck" -> <<60, 80>>
      [] c = "BasicReject" -> <<60, 90>>
      [] c = "BasicRecoverAsync" -> <<60, 100>>
      [] c = "BasicRecover" -> <<60, 110>>
      [] c = "BasicRecoverOK" -> <<60, 111>>
      [] c = "BasicNack" -> <<60, 120>>
      [] c = "TxSelect" -> <<90, 10>>
      [] c = "TxSelectOK" -> <<90, 11>>
      [] c = "TxCommit" -> <<90, 20>>
      [] c = "TxCommitOK" -> <<90, 21>>
      [] c = "TxRollback" -> <<90, 30>>
      [] c = "TxRollbackOK" -> <<90, 31>>
      [] c = "ConfirmSelect" -> <<85, 10>>
      [] c = "ConfirmSelectOK" -> <<85, 11>>

\* field_info of each class: the types of its fields in declared order (the
\* aliases Bit, Octet, Short, Long, Longlong, Shortstr and Longstr resolved)
field_info(c) ==
    CASE c = "ConnectionStart" ->
           <<"UnsignedByte", "UnsignedByte", "Table", "LongStr", "LongStr">>
      [] c = "ConnectionStartOK" ->
           <<"Table", "ShortStr", "LongStr", "ShortStr">>
      [] c \in {"ConnectionSecure", "ConnectionSecureOK", "ChannelOpenOK"} ->
           <<"LongStr">>
      [] c \in {"ConnectionTune", "ConnectionTuneOK"} ->
           <<"UnsignedShort", "UnsignedLong", "UnsignedShort">>
      [] c = "ConnectionOpen" ->
           <<"ShortStr", "ShortStr", "Bool">>
      [] c \in {"ConnectionOpenOK", "ChannelOpen", "BasicConsumeOK",
                "BasicCancelOK", "BasicGetEmpty"} ->
           <<"ShortStr">>
      [] c \in {"ConnectionClose", "ChannelClose"} ->
           <<"UnsignedShort", "ShortStr", "UnsignedShort", "UnsignedShort">>
      [] c \in {"ConnectionCloseOK", "ChannelCloseOK", "ExchangeDeclareOK",
                "ExchangeDeleteOK", "ExchangeBindOK", "ExchangeUnbindOK",
                "QueueBindOK", "QueueUnbindOK", "BasicQosOK",
                "BasicRecoverOK", "TxSelect", "TxSelectOK", "TxCommit",
                "TxCommitOK", "TxRollback", "TxRollbackOK", "ConfirmSelectOK"} ->
           <<>>
      [] c \in {"ChannelFlow", "ChannelFlowOK", "BasicRecoverAsync",
                "BasicRecover", "ConfirmSelect"} ->
           <<"Bool">>
      [] c = "ExchangeDeclare" ->
           <<"UnsignedShort", "ShortStr", "ShortStr", "Bool", "Bool", "Bool",
             "Bool", "Bool", "Table">>
      [] c = "ExchangeDelete" ->
           <<"UnsignedShort", "ShortStr", "Bool", "Bool">>
      [] c \in {"ExchangeBind", "ExchangeUnbind", "QueueBind"} ->
           <<"UnsignedShort", "ShortStr", "ShortStr", "ShortStr", "Bool",
             "Table">>
      [] c = "QueueDeclare" ->
           <<"UnsignedShort", "ShortStr", "Bool", "Bool", "Bool", "Bool",
             "Bool", "Table">>
      [] c = "QueueDeclareOK" ->
           <<"ShortStr", "UnsignedLong", "UnsignedLong">>
      [] c = "QueueUnbind" ->
           <<"UnsignedShort", "ShortStr", "ShortStr", "ShortStr", "Table">>
      [] c \in {"QueuePurge", "BasicGet"} ->
           <<"UnsignedShort", "ShortStr", "Bool">>
      [] c \in {"QueuePurgeOK", "QueueDeleteOK"} ->
           <<"UnsignedLong">>
      [] c = "QueueDelete" ->
           <<"UnsignedShort", "ShortStr", "Bool", "Bool", "Bool">>
      [] c = "BasicQos" ->
           <<"UnsignedLong", "UnsignedShort", "Bool">>
      [] c = "BasicConsume" ->
           <<"UnsignedShort", "ShortStr", "ShortStr", "Bool", "Bool", "Bool",
             "Bool", "Table">>
      [] c = "BasicCancel" ->
           <<"ShortStr", "Bool">>
      [] c = "BasicPublish" ->
           <<"UnsignedShort", "ShortStr", "ShortStr", "Bool", "Bool">>
      [] c = "BasicReturn" ->
           <<"UnsignedShort", "ShortStr", "ShortStr", "ShortStr">>
      [] c = "BasicDeliver" ->
           <<"ShortStr", "UnsignedLongLong", "Bool", "ShortStr", "ShortStr">>
      [] c = "BasicGetOK" ->
           <<"UnsignedLongLong", "Bool", "ShortStr", "ShortStr",
             "UnsignedLong">>
      [] c \in {"BasicAck", "BasicReject"} ->
           <<"UnsignedLongLong", "Bool">>
      [] c = "BasicNack" ->
           <<"UnsignedLongLong", "Bool", "Bool">>

\* METHODS[method_type]: the class registered under a tag, "" for a KeyError
METHODS(tag) ==
    CASE tag = <<10, 10>> -> "ConnectionStart"
      [] tag = <<10, 11>> -> "ConnectionStartOK"
      [] tag = <<10, 20>> -> "ConnectionSecure"
      [] tag = <<10, 21>> -> "ConnectionSecureOK"
      [] tag = <<10, 30>> -> "ConnectionTune"
      [] tag = <<10, 31>> -> "ConnectionTuneOK"
      [] tag = <<10, 40>> -> "ConnectionOpen"
      [] tag = <<10, 41>> -> "ConnectionOpenOK"
      [] tag = <<10, 50>> -> "ConnectionClose"
      [] tag = <<10, 51>> -> "ConnectionCloseOK"
      [] tag = <<20, 10>> -> "ChannelOpen"
      [] tag = <<20, 11>> -> "ChannelOpenOK"
      [] tag = <<20, 20>> -> "ChannelFlow"
      [] tag = <<20, 21>> -> "ChannelFlowOK"
      [] tag = <<20, 40>> -> "ChannelClose"
      [] tag = <<20, 41>> -> "ChannelCloseOK"
      [] tag = <<40, 10>> -> "ExchangeDeclare"
      [] tag = <<40, 11>> -> "ExchangeDeclareOK"
      [] tag = <<40, 20>> -> "ExchangeDelete"
      [] tag = <<40, 21>> -> "ExchangeDeleteOK"
      [] tag = <<40, 30>> -> "ExchangeBind"
      [] tag = <<40, 31>> -> "ExchangeBindOK"
      [] tag = <<40, 40>> -> "ExchangeUnbind"
      [] tag = <<40, 51>> -> "ExchangeUnbindOK"
      [] tag = <<50, 10>> -> "QueueDeclare"
      [] tag = <<50, 11>> -> "QueueDeclareOK"
      [] tag = <<50, 20>> -> "QueueBind"
      [] tag = <<50, 21>> -> "QueueBindOK"
      [] tag = <<50, 50>> -> "QueueUnbind"
      [] tag = <<50, 51>> -> "QueueUnbindOK"
      [] tag = <<50, 30>> -> "QueuePurge"
      [] tag = <<50, 31>> -> "QueuePurgeOK"
      [] tag = <<50, 40>> -> "QueueDelete"
      [] tag = <<50, 41>> -> "QueueDeleteOK"
      [] tag = <<60, 10>> -> "BasicQos"
      [] tag = <<60, 11>> -> "BasicQosOK"
      [] tag = <<60, 20>> -> "BasicConsume"
      [] tag = <<60, 21>> -> "BasicConsumeOK"
      [] tag = <<60, 30>> -> "BasicCancel"
      [] tag = <<60, 31>> -> "BasicCancelOK"
      [] tag = <<60, 40>> -> "BasicPublish"
      [] tag = <<60, 50>> -> "BasicReturn"
      [] tag = <<60, 60>> -> "BasicDeliver"
      [] tag = <<60, 70>> -> "BasicGet"
      [] tag = <<60, 71>> -> "BasicGetOK"
      [] tag = <<60, 72>> -> "BasicGetEmpty"
      [] tag = <<60, 80>> -> "BasicAck"
      [] tag = <<60, 90>> -> "BasicReject"
      [] tag = <<60, 100>> -> "BasicRecoverAsync"
      [] tag = <<60, 110>> -> "BasicRecover"
      [] tag = <<60, 111>> -> "BasicRecoverOK"
      [] tag = <<60, 120>> -> "BasicNack"
      [] tag = <<90, 10>> -> "TxSelect"
      [] tag = <<90, 11>> -> "TxSelectOK"
      [] tag = <<90, 20>> -> "TxCommit"
      [] tag = <<90, 21>> -> "TxCommitOK"
      [] tag = <<90, 30>> -> "TxRollback"
      [] tag = <<90, 31>> -> "TxRollbackOK"
      [] tag = <<85, 10>> -> "ConfirmSelect"
      [] tag = <<85, 11>> -> "ConfirmSelectOK"
      [] OTHER -> ""

\* a method class: its name, its tag and its schema
MethodClass(c) ==
    [name |-> c, method_type |-> method_type(c), field_info |-> field_info(c)]

\* an instance of a method class: self.values in field order
Method(cls, values) ==
    [cls |-> cls.name, method_type |-> cls.method_type, values |-> values]

\* the rest of the loop of BaseMethod.__init__ behind amqptype(value)
RECURSIVE InitValues(_, _)
InitValuesRest(o, rest) ==
    IF o.err # "" THEN o
    ELSE IF rest.err # "" THEN rest
    ELSE Ok(<<o.val>> \o rest.val)

\* the loop of BaseMethod.__init__: self.values[name] = amqptype(value)
InitValues(fields, values) ==
    IF fields = <<>> THEN Ok(<<>>)
    ELSE InitValuesRest(New(Head(fields), Head(values)),
                        InitValues(Tail(fields), Tail(values)))

\* the method once its values are built
MethodOf(cls, values) ==
    IF values.err # "" THEN values ELSE Ok(Method(cls, values.val))

\* BaseMethod.__init__(self, *values)
BaseMethodInit(cls, values) ==
    IF Len(values) # Len(cls.field_info) THEN Raise("AssertionError")
    ELSE MethodOf(cls, InitValues(cls.field_info, values))

\* struct.pack('!HH', *self.method_type)
StructPackHH(tag) ==
    <<tag[1] \div 256, tag[1] % 256, tag[2] \div 256, tag[2] % 256>>

\* struct.unpack('!HH', data) of four bytes
StructUnpackHH(data) == <<data[1] * 256 + data[2], data[3] * 256 + data[4]>>

\* if bits: stream.write(types.Bool.pack_many(bits))
FlushBits(bits, s) == IF bits # <<>> THEN s \o pack_many(bits) ELSE s

RECURSIVE MethodWriteLoop(_, _, _)

\* the loop goes on behind value.to_bytestream(stream), unless that raised
MethodWriteNext(rest, w) ==
    IF w.err # "" THEN w ELSE MethodWriteLoop(rest, <<>>, w.stream)

\* the loop of BaseMethod.to_bytestream over self.values.values(), and the
\* flush of the bits that are left behind it
MethodWriteLoop(values, bits, s) ==
    IF values = <<>> THEN [err |-> "", stream |-> FlushBits(bits, s)]
    ELSE IF Head(values).cls = "Bool"
    THEN MethodWriteLoop(Tail(values), Append(bits, Head(values).value), s)
    ELSE MethodWriteNext(Tail(values),
                         to_bytestream(Head(values), FlushBits(bits, s)))

\* BaseMethod.to_bytestream(self, stream)
BaseMethodToBytestream(self, s) ==
    MethodWriteLoop(self.values, <<>>, s \o StructPackHH(self.method_type))

\* BaseMethod.from_bytestream(cls, stream).  The loop is over
\* cls.field_info.values(), and field_info is a tuple of (name, type) pairs
\* in every class, so the call raises AttributeError before it reads a byte
BaseMethodFromBytestream(cls, s, p) == DecRaise("AttributeError", p)

\* select_method with a class to fall back on for an unregistered tag
select_methodDefault(raw) ==
    LET h == Read(raw, 0, 4) IN
    IF Len(h.data) < 4 THEN DecRaise("struct.error", h.pos)
    ELSE IF METHODS(StructUnpackHH(h.data)) = ""
    THEN BaseMethodFromBytestream(MethodClass("TxSelect"), raw, h.pos)
    ELSE BaseMethodFromBytestream(MethodClass(METHODS(StructUnpackHH(h.data))),
                                  raw, h.pos)

\* select_method(raw)
select_method(raw) ==
    LET h == Read(raw, 0, 4) IN
    IF Len(h.data) < 4 THEN DecRaise("struct.error", h.pos)
    ELSE IF METHODS(StructUnpackHH(h.data)) = "" THEN DecRaise("KeyError", h.pos)
    ELSE BaseMethodFromBytestream(MethodClass(METHODS(StructUnpackHH(h.data))),
                                  raw, h.pos)

\* BaseMethod.__eq__: the same tag and equal values, field by field
MethodEq(a, b) ==
    /\ a.method_type = b.method_type
    /\ Len(a.values) = Len(b.values)
    /\ \A i \in 1..Len(a.values) : PyEq(a.values[i], b.values[i])

(***************************************************************************)
(* Frames and their payloads                                               *)
(***************************************************************************)
FRAME_METHOD == 1

FRAME_HEADER == 2

FRAME_BODY == 3

FRAME_HEARTBEAT == 8

FRAME_END == 206

\* basic.PROPERTIES: the types of the properties in declared order
\* (content_type, content_encoding, headers, delivery_mode, priority,
\* correlation_id, reply_to, expiration, message_id, timestamp, type,
\* user_id, app_id)
PROPERTIES ==
    <<"ShortStr", "ShortStr", "Table", "UnsignedByte", "UnsignedByte",
      "ShortStr", "ShortStr", "ShortStr", "ShortStr", "Timestamp",
      "ShortStr", "ShortStr", "ShortStr">>

\* PROPERTIES_BY_CLASS_ID[class_id]
PROPERTIES_BY_CLASS_ID(class_id) ==
    IF PyEq(class_id, I(60)) THEN Ok(PROPERTIES) ELSE Raise("KeyError")

\* a stream that nothing has failed on yet
Start(s) == [err |-> "", stream |-> s]

\* o.to_bytestream(stream) of an object that may have failed to construct
WriteObj(o, s) ==
    IF o.err # "" THEN [err |-> o.err, stream |-> s]
    ELSE to_bytestream(o.val, s)

\* types.c(value).to_bytestream(stream), behind the writes that gave w
WriteNew(c, value, w) ==
    IF w.err # "" THEN w ELSE WriteObj(New(c, value), w.stream)

\* stream.write(data), behind the writes that gave w
WriteBytes(data, w) ==
    IF w.err # "" THEN w ELSE [err |-> "", stream |-> w.stream \o data]

\* ContentHeaderPayload(class_id, body_length, properties)
ContentHeaderPayload(class_id, body_length, properties) ==
    [cls |-> "ContentHeaderPayload", class_id |-> class_id,
     body_length |-> body_length, properties |-> properties, weight |-> I(0)]

\* ContentBodyPayload(data)
ContentBodyPayload(data) == [cls |-> "ContentBodyPayload", data |-> data]

\* HeartbeatPayload()
HeartbeatPayload == [cls |-> "HeartbeatPayload"]

\* the loop of ContentHeaderPayload.to_bytestream over self.properties.  For
\* a value that is not None it calls val.pack(val): a TypeError for an
\* instance of a type class, whose pack takes no argument, an AttributeError
\* for a plain value, which has no pack.  It returns property_flags
RECURSIVE PropertyFlags(_, _, _)
PropertyFlags(properties, property_flags, bitshift) ==
    IF properties = <<>> THEN Ok(property_flags)
    ELSE IF Head(properties) # None
    THEN IF bitshift < 0 THEN Raise("ValueError")
         ELSE IF IsBaseType(Head(properties)) THEN Raise("TypeError")
         ELSE Raise("AttributeError")
    ELSE PropertyFlags(Tail(properties), property_flags, bitshift - 1)

\* the flags and the property bytes behind the three fixed fields
WriteProperties(flags, w) ==
    IF w.err # "" THEN w
    ELSE IF flags.err # "" THEN [err |-> flags.err, stream |-> w.stream]
    ELSE WriteBytes(<<>>, WriteNew("UnsignedShort", flags.val, w))

\* ContentHeaderPayload.to_bytestream(self, stream)
ContentHeaderPayloadToBytestream(self, s) ==
    WriteProperties(
        PropertyFlags(self.properties, I(0), 15),
        WriteNew("UnsignedLongLong", self.body_length,
                 WriteNew("UnsignedShort", self.weight,
                          WriteNew("UnsignedShort", self.class_id, Start(s)))))

\* the loop of ContentHeaderPayload.from_bytestream: its first pass evaluates
\* property_flags & (1 << pos) on an UnsignedShort instance, a TypeError
HeaderProperties(class_id, body_length, property_flags, properties) ==
    IF properties.err # "" THEN DecRaise(properties.err, property_flags.pos)
    ELSE IF properties.val # <<>> THEN DecRaise("TypeError", property_flags.pos)
    ELSE Dec(ContentHeaderPayload(class_id.val, body_length.val, <<>>),
             0, property_flags.pos)

\* behind property_flags = types.UnsignedShort.from_bytestream(stream)
HeaderFlags(class_id, body_length, property_flags) ==
    IF property_flags.err # "" THEN property_flags
    ELSE HeaderProperties(class_id, body_length, property_flags,
                          PROPERTIES_BY_CLASS_ID(class_id.val))

\* behind body_length = types.UnsignedLongLong.from_bytestream(stream)
HeaderLength(s, class_id, body_length) ==
    IF body_length.err # "" THEN body_length
    ELSE HeaderFlags(class_id, body_length,
                     from_bytestream("UnsignedShort", s, body_length.pos))

\* behind weight = types.UnsignedShort.from_bytestream(stream)
HeaderWeight(s, class_id, weight) ==
    IF weight.err # "" THEN weight
    ELSE IF ~PyEq(weight.val, I(0)) THEN DecRaise("AssertionError", weight.pos)
    ELSE HeaderLength(s, class_id,
                      from_bytestream("UnsignedLongLong", s, weight.pos))

\* behind class_id = types.UnsignedShort.from_bytestream(stream)
HeaderClass(s, class_id) ==
    IF class_id.err # "" THEN class_id
    ELSE HeaderWeight(s, class_id,
                      from_bytestream("UnsignedShort", s, class_id.pos))

\* ContentHeaderPayload.from_bytestream(cls, stream)
ContentHeaderPayloadFromBytestream(s, p) ==
    HeaderClass(s, from_bytestream("UnsignedShort", s, p))

\* ContentHeaderPayload.__eq__
ContentHeaderPayloadEq(a, b) ==
    /\ PyEq(a.class_id, b.class_id)
    /\ PyEq(a.body_length, b.body_length)
    /\ Len(a.properties) = Len(b.properties)
    /\ \A i \in 1..Len(a.properties) : PyEq(a.properties[i], b.properties[i])

\* stream.read(body_chunk_size); a negative size stands for None
ReadChunk(s, p, body_chunk_size) ==
    IF body_chunk_size < 0 THEN Read(s, p, Len(s))
    ELSE Read(s, p, body_chunk_size)

\* ContentBodyPayload.from_bytestream(cls, stream, body_chunk_size)
ContentBodyPayloadFromBytestream(s, p, body_chunk_size) ==
    Dec(ContentBodyPayload(PyBytes(ReadChunk(s, p, body_chunk_size).data)),
        0, ReadChunk(s, p, body_chunk_size).pos)

\* whether a payload is a method
IsMethod(payload) == \E i \in 1..Len(MethodNames) : MethodNames[i] = payload.cls

\* self.payload.to_bytestream(stream), behind the writes that gave w
WritePayload(payload, w) ==
    IF w.err # "" THEN w
    ELSE CASE payload.cls = "ContentHeaderPayload" ->
                ContentHeaderPayloadToBytestream(payload, w.stream)
           [] payload.cls = "ContentBodyPayload" ->
                WriteBytes(payload.data.b, w)
           [] payload.cls = "HeartbeatPayload" ->
                WriteNew("ByteArray", PyBytes(<<>>), w)
           [] OTHER -> BaseMethodToBytestream(payload, w.stream)

\* the frame classes carried in the envelope
FrameClasses ==
    <<"MethodFrame", "ContentHeaderFrame", "ContentBodyFrame", "HeartbeatFrame">>

\* frame_type of a frame class
frame_type(cls) ==
    CASE cls = "MethodFrame" -> FRAME_METHOD
      [] cls = "ContentHeaderFrame" -> FRAME_HEADER
      [] cls = "ContentBodyFrame" -> FRAME_BODY
      [] cls = "HeartbeatFrame" -> FRAME_HEARTBEAT

\* FRAMES[frame_type], "" for a KeyError
FRAMES(type) ==
    CASE PyEq(type, I(FRAME_METHOD)) -> "MethodFrame"
      [] PyEq(type, I(FRAME_HEADER)) -> "ContentHeaderFrame"
      [] PyEq(type, I(FRAME_BODY)) -> "ContentBodyFrame"
      [] PyEq(type, I(FRAME_HEARTBEAT)) -> "HeartbeatFrame"
      [] OTHER -> ""

\* a frame object
Frame(cls, channel_id, payload) ==
    [cls |-> cls, channel_id |-> channel_id, payload |-> payload]

\* a HeartbeatFrame.__init__ that takes every channel
FrameInitAnyChannel(cls, channel_id, payload) ==
    IF cls # "HeartbeatFrame" THEN Ok(Frame(cls, channel_id, payload))
    ELSE Ok(Frame(cls, channel_id,
                  IF payload = None THEN HeartbeatPayload ELSE payload))

\* Frame.__init__, and HeartbeatFrame.__init__ with its assert on the
\* channel and its default payload
FrameInit(cls, channel_id, payload) ==
    IF cls # "HeartbeatFrame" THEN Ok(Frame(cls, channel_id, payload))
    ELSE IF ~PyEq(channel_id, I(0)) THEN Raise("AssertionError")
    ELSE Ok(Frame(cls, channel_id,
                  IF payload = None THEN HeartbeatPayload ELSE payload))

\* Frame.to_bytestream(self, stream)
FrameToBytestream(self, s) ==
    WriteNew("UnsignedByte", I(FRAME_END),
        WritePayload(self.payload,
            WriteNew("UnsignedShort", self.channel_id,
                WriteNew("UnsignedByte", I(frame_type(self.cls)), Start(s)))))

\* cls(channel_id, payload) of a decoded payload; p is the cursor of the
\* stream the frame was read from
FrameMade(frame, p) ==
    IF frame.err # "" THEN DecRaise(frame.err, p) ELSE Dec(frame.val, 0, p)

\* return cls(channel_id, payload), unless decoding the payload raised
FrameOf(cls, channel_id, payload, p) ==
    IF payload.err # "" THEN DecRaise(payload.err, p)
    ELSE FrameMade(FrameInit(cls, channel_id, payload.val), p)

\* frame_cls.from_payload_bytestream(payload_stream, channel_id,
\* read_chunk_size).  MethodFrame calls methods.Method.from_bytestream, and
\* methods has no attribute Method
FromPayloadBytestream(frame_cls, payload_stream, channel_id, read_chunk_size, p) ==
    CASE frame_cls = "MethodFrame" -> DecRaise("AttributeError", p)
      [] frame_cls = "ContentHeaderFrame" ->
           FrameOf(frame_cls, channel_id,
                   ContentHeaderPayloadFromBytestream(payload_stream, 0), p)
      [] frame_cls = "ContentBodyFrame" ->
           FrameOf(frame_cls, channel_id,
                   ContentBodyPayloadFromBytestream(payload_stream, 0,
                                                    read_chunk_size), p)
      [] frame_cls = "HeartbeatFrame" ->
           FrameOf(frame_cls, channel_id, Ok(HeartbeatPayload), p)

\* a dispatch whose payload decoder reads the frame's own stream, and leaves
\* its cursor behind the payload bytes it took
FrameDispatchInPlace(frame_cls, payload_bytes, channel_id, read_chunk_size, p) ==
    IF frame_cls = "" THEN DecRaise("KeyError", p)
    ELSE FromPayloadBytestream(frame_cls, payload_bytes.value.b, channel_id,
                               read_chunk_size,
                               p - Len(payload_bytes.value.b)
                                 + ReadChunk(payload_bytes.value.b, 0,
                                             read_chunk_size).pos)

\* frame_cls = FRAMES[frame_type] and the call of from_payload_bytestream
FrameDispatch(frame_cls, payload_bytes, channel_id, read_chunk_size, p) ==
    IF frame_cls = "" THEN DecRaise("KeyError", p)
    ELSE FromPayloadBytestream(frame_cls, payload_bytes.value.b, channel_id,
                               read_chunk_size, p)

\* Frame.from_bytestream that goes on whatever the last byte is
FrameCheckAnyEnd(type, channel_id, payload_bytes, end, read_chunk_size) ==
    IF end.err # "" THEN end
    ELSE FrameDispatch(FRAMES(type.val), payload_bytes.val, channel_id.val,
                       read_chunk_size, end.pos)

\* behind end = types.UnsignedByte.from_bytestream(stream):
\* assert end == constants.FRAME_END, then the dispatch on the frame type
FrameCheckEnd(type, channel_id, payload_bytes, end, read_chunk_size) ==
    IF end.err # "" THEN end
    ELSE IF ~PyEq(end.val, I(FRAME_END)) THEN DecRaise("AssertionError", end.pos)
    ELSE FrameDispatch(FRAMES(type.val), payload_bytes.val, channel_id.val,
                       read_chunk_size, end.pos)

\* behind payload_bytes = types.ByteArray.from_bytestream(stream)
FramePayloadBytes(s, type, channel_id, payload_bytes, read_chunk_size) ==
    IF payload_bytes.err # "" THEN payload_bytes
    ELSE FrameCheckEnd(type, channel_id, payload_bytes,
                       from_bytestream("UnsignedByte", s, payload_bytes.pos),
                       read_chunk_size)

\* behind channel_id = types.UnsignedShort.from_bytestream(stream)
FrameChannel(s, type, channel_id, read_chunk_size) ==
    IF channel_id.err # "" THEN channel_id
    ELSE FramePayloadBytes(s, type, channel_id,
                           from_bytestream("ByteArray", s, channel_id.pos),
                           read_chunk_size)

\* behind frame_type = types.UnsignedByte.from_bytestream(stream)
FrameType(s, type, read_chunk_size) ==
    IF type.err # "" THEN type
    ELSE FrameChannel(s, type,
                      from_bytestream("UnsignedShort", s, type.pos),
                      read_chunk_size)

\* Frame.from_bytestream(cls, stream, read_chunk_size)
FrameFromBytestream(s, p, read_chunk_size) ==
    FrameType(s, from_bytestream("UnsignedByte", s, p), read_chunk_size)

\* ProtocolHeaderPayload.PREFIX, b'AMQP\x00'
PREFIX == <<65, 77, 81, 80, 0>>

\* ProtocolHeaderPayload(protocol_major, protocol_minor, protocol_revision)
ProtocolHeaderPayload(protocol_major, protocol_minor, protocol_revision) ==
    [cls |-> "ProtocolHeaderPayload", protocol_major |-> protocol_major,
     protocol_minor |-> protocol_minor,
     protocol_revision |-> protocol_revision]

\* ProtocolHeaderPayload(): the defaults of __init__
ProtocolHeaderPayloadDefault == ProtocolHeaderPayload(I(0), I(9), I(1))

\* ProtocolHeaderPayload.to_bytestream(self, stream)
ProtocolHeaderPayloadToBytestream(self, s) ==
    WriteNew("UnsignedByte", self.protocol_revision,
        WriteNew("UnsignedByte", self.protocol_minor,
            WriteNew("UnsignedByte", self.protocol_major,
                WriteBytes(PREFIX, Start(s)))))

\* ProtocolHeaderFrame.to_bytestream(self, stream): the payload and nothing
\* around it
ProtocolHeaderFrameToBytestream(self, s) ==
    ProtocolHeaderPayloadToBytestream(self.payload, s)

\* return cls(protocol_major, protocol_minor, protocol_revision)
ProtocolRevision(protocol_major, protocol_minor, protocol_revision) ==
    IF protocol_revision.err # "" THEN protocol_revision
    ELSE Dec(ProtocolHeaderPayload(protocol_major.val, protocol_minor.val,
                                   protocol_revision.val),
             0, protocol_revision.pos)

\* behind protocol_minor = types.UnsignedByte.from_bytestream(stream)
ProtocolMinor(s, protocol_major, protocol_minor) ==
    IF protocol_minor.err # "" THEN protocol_minor
    ELSE ProtocolRevision(protocol_major, protocol_minor,
                          from_bytestream("UnsignedByte", s, protocol_minor.pos))

\* behind protocol_major = types.UnsignedByte.from_bytestream(stream)
ProtocolMajor(s, protocol_major) ==
    IF protocol_major.err # "" THEN protocol_major
    ELSE ProtocolMinor(s, protocol_major,
                       from_bytestream("UnsignedByte", s, protocol_major.pos))

\* ProtocolHeaderPayload.from_bytestream that reads the version behind any
\* five bytes
ProtocolAnyPrefix(s, protocol) ==
    ProtocolMajor(s, from_bytestream("UnsignedByte", s, protocol.pos))

\* behind protocol = stream.read(5): assert protocol == b'AMQP\x00', then
\* the three version bytes
ProtocolPrefix(s, protocol) ==
    IF protocol.data # PREFIX THEN DecRaise("AssertionError", protocol.pos)
    ELSE ProtocolMajor(s, from_bytestream("UnsignedByte", s, protocol.pos))

\* ProtocolHeaderPayload.from_bytestream(cls, stream)
ProtocolHeaderPayloadFromBytestream(s, p) == ProtocolPrefix(s, Read(s, p, 5))

\* cls(channel_id, payload) behind the decoding of the payload
ProtocolHeaderFrameOf(channel_id, payload) ==
    FrameOf("ProtocolHeaderFrame", channel_id, payload, payload.pos)

\* ProtocolHeaderFrame.from_bytestream(cls, stream, read_chunk_size):
\* from_payload_bytestream(stream, None, read_chunk_size)
ProtocolHeaderFrameFromBytestream(s, p) ==
    ProtocolHeaderFrameOf(None, ProtocolHeaderPayloadFromBytestream(s, p))

(***************************************************************************)
(* The values the calls are tried on                                       *)
(***************************************************************************)
\* the longest run of booleans packed
MaxBits == 10

\* the most members of a Table or an Array built from the sample members
MaxItems == 2

\* every integer kind's MIN and MAX with their neighbours, and small values
IntInputs ==
    UNION {{IntPred(MIN(IntKinds[i])), MIN(IntKinds[i]), IntSucc(MIN(IntKinds[i])),
            IntPred(MAX(IntKinds[i])), MAX(IntKinds[i]), IntSucc(MAX(IntKinds[i]))}
           : i \in 1..Len(IntKinds)}
      \cup {I(0 - 2), I(5), I(300), I(70000)}

Text(n, x) == [i \in 1..n |-> x]

BytesInputs ==
    {<<>>, <<107>>, <<97, 98>>, <<195, 169>>, <<255>>, <<195>>, <<226, 130, 172>>,
     <<237, 160, 128>>, Text(255, 97), Text(256, 97)}

StrInputs == {PyStr(<<>>), PyStr(<<107>>), PyStr(<<195, 169>>)}

FloatInputs ==
    {PyFloat("zero", FALSE, 0, <<>>), PyFloat("zero", TRUE, 0, <<>>),
     PyFloat("fin", FALSE, 0, <<1>>), PyFloat("fin", TRUE, 1, <<>>),
     PyFloat("fin", FALSE, 24, Zeros(23) \o <<1>>),
     PyFloat("fin", FALSE, 24, Zeros(22) \o <<1, 1>>),
     PyFloat("fin", FALSE, 0 - 4,
             <<1,0,0,1, 1,0,0,1, 1,0,0,1, 1,0,0,1, 1,0,0,1, 1,0,0,1, 1,0,0,1,
               1,0,0,1, 1,0,0,1, 1,0,0,1, 1,0,0,1, 1,0,0,1, 1,0,1>>),
     PyFloat("fin", FALSE, 127, Ones(23)),
     PyFloat("fin", FALSE, 127, Ones(24)),
     PyFloat("fin", TRUE, 128, <<>>),
     PyFloat("fin", FALSE, 1023, Ones(52)),
     PyFloat("inf", FALSE, 0, <<>>), PyFloat("inf", TRUE, 0, <<>>),
     PyFloat("nan", FALSE, 0, <<>>)}

DecimalInputs ==
    {PyDecimal(0, I(0), 0, ""), PyDecimal(0, I(5), 0, ""),
     PyDecimal(0, I(10), 0, ""), PyDecimal(0, I(1), 1, ""),
     PyDecimal(0, I(0), 3, ""), PyDecimal(0, I(4), 9, ""),
     PyDecimal(0, I(5), 9, ""), PyDecimal(0, I(15), 0 - 1, ""),
     PyDecimal(1, I(1), 0, ""), PyDecimal(1, I(0), 0, ""),
     PyDecimal(0, MAX("UnsignedLong"), 0, ""),
     PyDecimal(0, IntSucc(MAX("UnsignedLong")), 0, ""),
     PyDecimal(0, I(0), 255, ""), PyDecimal(0, I(0), 256, ""),
     PyDecimal(0, I(0), 0, "F"), PyDecimal(0, I(0), 0, "n")}

DatetimeInputs ==
    {PyDatetime(0, 0), PyDatetime(0, 500000), PyDatetime(1, 999999),
     PyDatetime(946684800, 0), PyDatetime(0 - 1, 0), PyDatetime(0 - 1, 999999),
     [cls |-> "datetime", t |-> PyInt(FALSE, MagPow2(34)), us |-> 999999],
     [cls |-> "datetime", t |-> PyInt(FALSE, MagPow2(34)), us |-> 999998],
     [cls |-> "datetime", t |-> MaxStamp, us |-> 0],
     [cls |-> "datetime", t |-> MaxStamp, us |-> 999999]}

\* the datetimes of the Timestamps that are compared: up to two seconds and
\* a microsecond apart
ComparedStamps ==
    {PyDatetime(t, us) : t \in {0, 1, 2}, us \in {0, 1, 999999}}

\* the constructor arguments tried for a scalar class
ScalarInputs(c) ==
    CASE c = "Bool" -> {PyBool(TRUE), PyBool(FALSE), I(0), I(2)}
      [] IsIntKind(c) -> IntInputs \cup {PyBool(TRUE)}
      [] c \in {"Float", "Double"} -> FloatInputs
      [] c = "Decimal" -> DecimalInputs \cup {I(5), None}
      [] c \in {"ShortStr", "LongStr"} ->
           {PyBytes(b) : b \in BytesInputs} \cup StrInputs
      [] c = "ByteArray" -> {PyBytes(b) : b \in BytesInputs} \cup {PyStr(<<107>>)}
      [] c = "Void" -> {None, I(0)}
      [] c = "Timestamp" -> DatetimeInputs \cup {I(0)}

ScalarClasses == AmqpClasses \ {"Table", "Array"}

\* cls(value) for a value the class accepts
Made(c, value) == New(c, value).val

TableX1 == PyDict(<< <<PyStr(<<120>>), I(1)>> >>)

\* members of the sample Tables and Arrays: plain values, to be inferred,
\* instances of type classes, and nested dicts, lists and Tables
Members ==
    {I(1), I(128), PyStr(<<115>>), PyBool(TRUE), None, PyBytes(<<255>>),
     PyFloat("fin", FALSE, 0, <<1>>),
     Made("SignedLong", I(5)),
     Made("Timestamp", PyDatetime(1, 500000)),
     Made("Decimal", PyDecimal(0, I(1), 1, "")),
     Made("ShortStr", PyBytes(<<120>>)),
     TableX1,
     PyList(<<TableX1, I(2), PyStr(<<115>>)>>),
     Made("Table", PyDict(<< <<PyStr(<<120>>), Made("SignedLong", I(5))>> >>))}

\* keys of the sample Tables: 'k', b'k' and ShortStr('x')
Keys == <<PyStr(<<107>>), PyBytes(<<107>>), Made("ShortStr", PyBytes(<<120>>))>>

SeqsUpTo(S, n) == UNION {[1..k -> S] : k \in 0..n}

KeySeqs ==
    {q \in SeqsUpTo(1..Len(Keys), MaxItems) :
        \A i \in 1..(Len(q) - 1) : q[i] < q[i + 1]}

TableInputs ==
    UNION {{PyDict([i \in 1..Len(q) |-> <<Keys[q[i]], m[i]>>])
            : m \in [1..Len(q) -> Members]} : q \in KeySeqs}

ArrayInputs == {PyList(m) : m \in SeqsUpTo(Members, MaxItems)}

\* plain values stored alone in a Table or an Array, for their kind to be
\* inferred: the bounds of every integer kind with their neighbours, and the
\* two booleans
InferredInputs ==
    IntInputs \cup {I(0), I(127), I(128), I(255), I(256), I(0 - 129)}
        \cup {PyBool(TRUE), PyBool(FALSE)}

\* label bytes put in encoded Tables and Arrays: 'z', 'U', 0 and 255, which
\* no class has, and 'V', the label of Void
FedLabels == {122, 85, 0, 255, 86}

\* encoded Arrays with the label L: [L], [1, L], [L, 1], [[L]], [{k: L}]
LabelledArrays(L) ==
    {<<0, 0, 0, 1, L>>, <<0, 0, 0, 3, 98, 1, L>>, <<0, 0, 0, 3, L, 98, 1>>,
     <<0, 0, 0, 6, 65, 0, 0, 0, 1, L>>,
     <<0, 0, 0, 8, 70, 0, 0, 0, 3, 1, 107, L>>}

\* encoded Tables with the label L: {k: L}, {k: 1, j: L}, {k: L, j: 1},
\* {k: [L]}, {k: {j: L}}
LabelledTables(L) ==
    {<<0, 0, 0, 3, 1, 107, L>>, <<0, 0, 0, 7, 1, 107, 98, 1, 1, 106, L>>,
     <<0, 0, 0, 7, 1, 107, L, 1, 106, 98, 1>>,
     <<0, 0, 0, 8, 1, 107, 65, 0, 0, 0, 1, L>>,
     <<0, 0, 0, 10, 1, 107, 70, 0, 0, 0, 3, 1, 106, L>>}

\* values assigned to an item of a Table or of an Array and inserted in an
\* Array: plain values, 2^63, which no kind is inferred for, and instances of
\* type classes, two of them of the classes without a label
AssignedValues ==
    {I(1), PyStr(<<115>>), IntSucc(Pow2Minus1(63)),
     Made("SignedLong", I(5)),
     Made("ShortStr", PyBytes(<<120>>)),
     Made("UnsignedLongLong", I(1))}

\* keys assigned in a Table: 'k', b'j' and ShortStr('x')
AssignedKeys == {PyStr(<<107>>), PyBytes(<<106>>), Made("ShortStr", PyBytes(<<120>>))}

\* Tables and Arrays that a name is bound to before a composite is built
\* from a collection that holds them
InnerInputs ==
    {Identified(Made("Table", TableX1), 1),
     Identified(Made("Table", PyDict(<<>>)), 1),
     Identified(Made("Array", PyList(<<I(2)>>)), 1),
     Identified(Made("Array", PyList(<<>>)), 1)}

\* the composites built around inner: Table({'k': inner}), Array([inner]),
\* Array([1, inner]), Table({'k': [inner]}), and Table(inner) or
\* Array(inner), which takes inner's plain value
OuterInputs(inner) ==
    {<<"Table", PyDict(<< <<PyStr(<<107>>), inner>> >>)>>,
     <<"Array", PyList(<<inner>>)>>,
     <<"Array", PyList(<<I(1), inner>>)>>,
     <<"Table", PyDict(<< <<PyStr(<<107>>), PyList(<<inner>>)>> >>)>>,
     <<inner.cls, inner>>}

\* encoded Tables {k: 5} and {k: 5, j: 6} under declared lengths that end
\* before, inside, at the end of and behind an entry
DeclaredTables ==
    {<<0, 0, 0, n, 1, 107, 98, 5>> : n \in {0, 1, 2, 3, 4}}
        \cup {<<0, 0, 0, n, 1, 107, 98, 5, 1, 106, 98, 6>> : n \in {4, 5, 7, 8}}

\* encoded Arrays [SignedLong(5)] and [SignedLong(5), 1] under such
\* declared lengths
DeclaredArrays ==
    {<<0, 0, 0, n, 73, 0, 0, 0, 5>> : n \in {0, 1, 4, 5}}
        \cup {<<0, 0, 0, n, 73, 0, 0, 0, 5, 98, 1>> : n \in {5, 6, 7}}

\* keys assigned and deleted in a Table that is changed again and again:
\* text, bytes and ShortStr keys, and the int 5
StoredKeys == AssignedKeys \cup {PyBytes(<<107>>), I(5)}

\* the longest encoding that is cut short at every position
MaxCut == 16

\* the bytes that follow an encoded value in a stream: none, or two
FollowingBytes == {<<>>, <<1, 2>>}

\* members of the Tables and Arrays that are compared: two numbers, the
\* two lists of them and the two dicts of them
ComparedMembers ==
    {I(1), I(2), PyList(<<I(1), I(2)>>), PyList(<<I(2), I(1)>>),
     PyDict(<< <<PyStr(<<97>>), I(1)>>, <<PyStr(<<98>>), I(2)>> >>),
     PyDict(<< <<PyStr(<<98>>), I(2)>>, <<PyStr(<<97>>), I(1)>> >>)}

\* the keys 'a' and 'b'
ComparedKeys == <<PyStr(<<97>>), PyStr(<<98>>)>>

\* dicts of up to two items under distinct keys, in both orders of insertion
ComparedTables ==
    {PyDict([i \in 1..Len(q) |-> <<ComparedKeys[q[i]], m[i]>>]) :
        q \in {<<>>, <<1>>, <<2>>, <<1, 2>>, <<2, 1>>},
        m \in [1..Len(ComparedKeys) -> ComparedMembers]}

\* lists of up to two members
ComparedArrays ==
    {PyList(SubSeq(m, 1, k)) :
        k \in 0..Len(ComparedKeys),
        m \in [1..Len(ComparedKeys) -> ComparedMembers]}

\* what is compared, by class
Compared(c) == IF c = "Table" THEN ComparedTables ELSE ComparedArrays

BitRuns == SeqsUpTo({PyBool(TRUE), PyBool(FALSE)}, MaxBits)

\* a subclass of BaseMethod whose schema has two runs of bits, which no
\* generated class has: Short, Bit, Bit, Bit, Shortstr, Bit
SampleMethod ==
    [name |-> "SampleMethod", method_type |-> <<60, 200>>,
     field_info |-> <<"UnsignedShort", "Bool", "Bool", "Bool", "ShortStr",
                      "Bool">>]

\* the method classes the calls are tried on: every generated class and the
\* sample subclass
MethodClasses ==
    {MethodClass(MethodNames[i]) : i \in 1..Len(MethodNames)} \cup {SampleMethod}

\* the class of a method object
ClassOf(method) ==
    IF method.cls = SampleMethod.name THEN SampleMethod
    ELSE MethodClass(method.cls)

\* three values for a field of each type but Bool; the third integer is
\* MAX + 1, which the field's type refuses
FieldInputs(t) ==
    CASE IsIntKind(t) -> <<I(0), MAX(t), IntSucc(MAX(t))>>
      [] t \in {"ShortStr", "LongStr"} ->
           <<PyStr(<<>>), PyBytes(<<113>>), PyStr(<<195, 169>>)>>
      [] t = "Table" ->
           <<None, TableX1, PyDict(<< <<PyStr(<<107>>), PyList(<<I(2)>>)>> >>)>>

Variants == 1..3

\* the positions of the Bool fields of a schema
BitFields(fields) == {i \in 1..Len(fields) : fields[i] = "Bool"}

\* the arguments of a method: variant v for every field that is no Bool, and
\* the booleans of bits for the Bool fields
MethodValues(fields, v, bits) ==
    [i \in 1..Len(fields) |->
        IF fields[i] = "Bool" THEN PyBool(bits[i]) ELSE FieldInputs(fields[i])[v]]

\* cls(*values) for values the class accepts
MadeMethod(c, values) == BaseMethodInit(MethodClass(c), values).val

\* tags fed to select_method: registered ones and unregistered ones
FedTags ==
    {<<10, 10>>, <<20, 20>>, <<90, 31>>, <<0, 0>>, <<10, 0>>, <<10, 12>>,
     <<11, 10>>, <<2560, 2560>>, <<90, 32>>, <<60, 200>>, <<65535, 65535>>}

\* what follows the tag
FedTails == {<<>>, <<0>>, <<128>>, <<1, 2, 3>>}

\* raw input of select_method: a tag and a tail, or fewer than four bytes
MethodWires ==
    {StructPackHH(tag) \o tail : tag \in FedTags, tail \in FedTails}
        \cup {<<>>, <<0, 10>>, <<0, 10, 0>>}

\* property lists of more entries than the 14 flag bits: 15, 16 and 17
\* entries with nothing present, and 15 and 17 entries of which the last is
\* present
LongPropertyLists ==
    {[i \in 1..n |-> None] : n \in {15, 16, 17}}
        \cup {[i \in 1..n |->
                 IF i = n THEN Made("ShortStr", PyBytes(<<120>>)) ELSE None]
              : n \in {15, 17}}

\* property lists of a content header of class 60: nothing present, only
\* content_type, content_type and priority, only app_id, everything that is
\* no Table or Timestamp, and a plain str as content_type
PropertyLists ==
    {[i \in 1..Len(PROPERTIES) |-> None],
     [i \in 1..Len(PROPERTIES) |->
        IF i = 1 THEN Made("ShortStr", PyBytes(<<116>>)) ELSE None],
     [i \in 1..Len(PROPERTIES) |->
        IF i = 1 THEN Made("ShortStr", PyBytes(<<116>>))
        ELSE IF i = 5 THEN Made("UnsignedByte", I(5)) ELSE None],
     [i \in 1..Len(PROPERTIES) |->
        IF i = Len(PROPERTIES) THEN Made("ShortStr", PyBytes(<<97>>)) ELSE None],
     [i \in 1..Len(PROPERTIES) |->
        IF PROPERTIES[i] = "ShortStr" THEN Made("ShortStr", PyBytes(<<120>>))
        ELSE IF PROPERTIES[i] = "UnsignedByte" THEN Made("UnsignedByte", I(1))
        ELSE None],
     [i \in 1..Len(PROPERTIES) |-> IF i = 1 THEN PyStr(<<116>>) ELSE None]}
        \cup LongPropertyLists

\* content headers: class 60 and an unregistered class, body lengths up to
\* the largest and past it
HeaderInputs ==
    {ContentHeaderPayload(class_id, body_length, properties) :
        class_id \in {I(60), I(50)},
        body_length \in {I(0), I(5), MAX("UnsignedLongLong"),
                         IntSucc(MAX("UnsignedLongLong"))},
        properties \in PropertyLists}

\* the payloads a frame of each class is built with
PayloadInputs(cls) ==
    CASE cls = "MethodFrame" ->
           {MadeMethod("ChannelFlow", <<PyBool(TRUE)>>),
            MadeMethod("TxSelect", <<>>),
            MadeMethod("BasicPublish",
                       <<I(0), PyStr(<<101>>), PyStr(<<>>), PyBool(FALSE),
                         PyBool(TRUE)>>)}
      [] cls = "ContentHeaderFrame" ->
           {h \in HeaderInputs : h.body_length \in {I(0), I(5)}}
      [] cls = "ContentBodyFrame" ->
           {ContentBodyPayload(PyBytes(b)) : b \in {<<>>, <<97, 98>>, <<206>>}}
      [] cls = "HeartbeatFrame" -> {None, HeartbeatPayload}

ChannelInputs == {I(0), I(1), MAX("UnsignedShort"), IntSucc(MAX("UnsignedShort"))}

\* read_chunk_size: None (a negative number here), one byte or two bytes
ChunkInputs == {0 - 1, 1, 2}

\* a frame on the wire, by the grammar: type, channel, size, payload, end
WireFrame(type, channel, payload, end) ==
    <<type>> \o StructPackInt("UnsignedShort", I(channel))
        \o StructPackInt("UnsignedLong", I(Len(payload))) \o payload \o <<end>>

\* payloads of frames on the wire: nothing, ChannelFlow(True), a content
\* header of class 60 with no property, two bytes of body, and the four
\* zero bytes of the heartbeat of the unit test
WirePayloads ==
    {<<>>, <<0, 20, 0, 20, 128>>,
     <<0, 60, 0, 0, 0, 0, 0, 0, 0, 0, 0, 5, 0, 0>>, <<97, 98>>,
     <<0, 0, 0, 0>>}

\* the frames fed to Frame.from_bytestream: the four frame types and an
\* unregistered one, with the terminator and with other last bytes
WireInputs ==
    {[cls |-> "wire", type |-> type, channel |-> channel,
      payload |-> payload, end |-> end] :
        type \in {FRAME_METHOD, FRAME_HEADER, FRAME_BODY, FRAME_HEARTBEAT, 5},
        channel \in {0, 1}, payload \in WirePayloads,
        end \in {FRAME_END, 0, FRAME_END - 1, FRAME_END + 1, 255}}

\* the most frames in a stream
MaxFrames == 3

\* the frames of a stream: heartbeats with and without payload bytes, bodies
\* on two channels, and the method ChannelFlow(True)
StreamFrames ==
    {[type |-> FRAME_HEARTBEAT, channel |-> 0, payload |-> <<>>],
     [type |-> FRAME_HEARTBEAT, channel |-> 0, payload |-> <<0, 0, 0, 0>>],
     [type |-> FRAME_BODY, channel |-> 0, payload |-> <<97, 98>>],
     [type |-> FRAME_BODY, channel |-> 1, payload |-> <<>>],
     [type |-> FRAME_BODY, channel |-> 1, payload |-> <<206>>],
     [type |-> FRAME_METHOD, channel |-> 0, payload |-> <<0, 20, 0, 20, 128>>]}

\* the bytes of a sequence of frames, one behind the other
RECURSIVE Wired(_)
Wired(frames) ==
    IF frames = <<>> THEN <<>>
    ELSE WireFrame(frames[1].type, frames[1].channel, frames[1].payload,
                   FRAME_END) \o Wired(Tail(frames))

\* the version numbers of a protocol header: the defaults, the largest
\* bytes, and numbers that are no byte
ProtocolInputs ==
    {ProtocolHeaderPayloadDefault,
     ProtocolHeaderPayload(I(1), I(0), I(0)),
     ProtocolHeaderPayload(I(255), I(255), I(255)),
     ProtocolHeaderPayload(I(0), I(9), I(256)),
     ProtocolHeaderPayload(I(256), I(9), I(1)),
     ProtocolHeaderPayload(I(0), I(0 - 1), I(1))}

\* bytes fed to ProtocolHeaderFrame.from_bytestream: protocol headers,
\* whole, cut short and with a tail, other prefixes, and a heartbeat frame
ProtocolWires ==
    {PREFIX \o <<0, 9, 1>>, PREFIX \o <<1, 2, 3>>, PREFIX \o <<0, 9, 1, 7>>,
     PREFIX \o <<0, 9>>, PREFIX, <<>>, <<65, 77, 81>>,
     <<65, 77, 81, 81, 0, 0, 9, 1>>, <<97, 109, 113, 112, 0, 0, 9, 1>>,
     <<65, 77, 81, 80, 1, 0, 9, 1>>, <<8, 0, 0, 0, 0, 0, 0, 206>>}

(***************************************************************************)
(* The calls                                                               *)
(***************************************************************************)
Init ==
    /\ op = "init"
    /\ arg = None
    /\ obj = None
    /\ stream = <<>>
    /\ pos = 0
    /\ ret = Ok(None)

\* value = type_cls(arg)
Construct(c, value) ==
    /\ op = "init"
    /\ op' = "new"
    /\ arg' = [cls |-> c, value |-> value]
    /\ ret' = New(c, value)
    /\ obj' = ret'.val
    /\ UNCHANGED <<stream, pos>>

ConstructScalar ==
    \E c \in ScalarClasses : \E value \in ScalarInputs(c) : Construct(c, value)

ConstructTable == \E value \in TableInputs : Construct("Table", value)

ConstructArray == \E value \in ArrayInputs : Construct("Array", value)

\* Table({'k': v}) and Array([v]) of a plain integer or boolean
ConstructInferred ==
    \E v \in InferredInputs :
        \/ Construct("Table", PyDict(<< <<PyStr(<<107>>), v>> >>))
        \/ Construct("Array", PyList(<<v>>))

\* value.to_bytestream(stream) on a new stream
ToBytestream ==
    /\ op = "new"
    /\ ret.err = ""
    /\ LET r == to_bytestream(obj, stream) IN
       /\ stream' = r.stream
       /\ ret' = [err |-> r.err, val |-> None]
    /\ op' = "to_bytestream"
    /\ UNCHANGED <<arg, obj, pos>>

\* stream.seek(0); type_cls.from_bytestream(stream)
FromBytestream ==
    /\ op = "to_bytestream"
    /\ ret.err = ""
    /\ LET d == from_bytestream(obj.cls, stream, 0) IN
       /\ ret' = d
       /\ pos' = d.pos
    /\ op' = "from_bytestream"
    /\ UNCHANGED <<arg, obj, stream>>

\* Bool.many_to_bytestream(bools, stream) on a new stream
ManyToBytestream ==
    /\ op = "init"
    /\ \E bools \in BitRuns :
          /\ arg' = PyList(bools)
          /\ stream' = stream \o pack_many(bools)
    /\ op' = "many_to_bytestream"
    /\ ret' = Ok(None)
    /\ UNCHANGED <<obj, pos>>

\* stream.seek(0); Bool.many_from_bytestream(stream, len(bools))
ManyFromBytestream ==
    /\ op = "many_to_bytestream"
    /\ LET d == unpack_many(stream, 0, Len(arg.items)) IN
       /\ ret' = Dec(PyList(d.val), d.n, d.pos)
       /\ pos' = d.pos
    /\ op' = "many_from_bytestream"
    /\ UNCHANGED <<arg, obj, stream>>

\* type_cls.unpack(stream) on the bytes written, with the bytes that follow
\* them in the stream
Unpack ==
    /\ op = "to_bytestream"
    /\ ret.err = ""
    /\ \E following \in FollowingBytes :
          /\ stream' = stream \o following
          /\ ret' = unpack(obj.cls, stream \o following, 0)
    /\ pos' = ret'.pos
    /\ op' = "unpack"
    /\ UNCHANGED <<arg, obj>>

\* type_cls.from_bytestream(stream) on a buffer that ends before the end of
\* the bytes written
FromTruncated ==
    /\ op = "to_bytestream"
    /\ ret.err = ""
    /\ Len(stream) <= MaxCut
    /\ \E k \in 0..(Len(stream) - 1) :
          /\ stream' = SubSeq(stream, 1, k)
          /\ ret' = from_bytestream(obj.cls, SubSeq(stream, 1, k), 0)
    /\ pos' = ret'.pos
    /\ op' = "from_truncated"
    /\ UNCHANGED <<arg, obj>>

\* the bytes of a Table or of an Array arrive from the peer
FeedLabelled ==
    /\ op = "init"
    /\ \E L \in FedLabels :
          \/ \E raw \in LabelledTables(L) :
                /\ arg' = [cls |-> "Table", value |-> PyBytes(raw), label |-> L]
                /\ stream' = raw
          \/ \E raw \in LabelledArrays(L) :
                /\ arg' = [cls |-> "Array", value |-> PyBytes(raw), label |-> L]
                /\ stream' = raw
    /\ op' = "feed"
    /\ UNCHANGED <<obj, pos, ret>>

\* type_cls.from_bytestream(stream) on the bytes fed
FromFed ==
    /\ op = "feed"
    /\ ret' = from_bytestream(arg.cls, stream, 0)
    /\ pos' = ret'.pos
    /\ op' = "from_fed"
    /\ UNCHANGED <<arg, obj, stream>>

\* the target of an assignment, an insertion or a deletion: a Table or an
\* Array that was constructed, or one that was changed already and holds
\* fewer than MaxItems members
Built(c) ==
    /\ obj.cls = c
    /\ \/ op = "new" /\ ret.err = ""
       \/ /\ op \in {"setitem", "insert", "delitem"}
          /\ Len(obj.value.items) < MaxItems

\* the state after a statement on obj that gave r; held is obj before it
Mutated(name, args, r) ==
    /\ arg' = [cls |-> obj.cls, value |-> PyList(args), held |-> obj]
    /\ obj' = IF r.err = "" THEN r.val ELSE obj
    /\ ret' = [err |-> r.err, val |-> None]
    /\ op' = name
    /\ UNCHANGED <<stream, pos>>

\* table[key] = value
SetTableItem ==
    /\ Built("Table")
    /\ \E key \in StoredKeys : \E value \in AssignedValues :
          Mutated("setitem", <<key, value>>,
                  TableSetItem(obj, TableKey(key), Stored(value)))

\* array[index] = value
SetArrayItem ==
    /\ Built("Array")
    /\ \E index \in 0..Len(obj.value.items) : \E value \in AssignedValues :
          Mutated("setitem", <<I(index), value>>,
                  ArraySetItem(obj, index, Stored(value)))

\* del table[key]
DeleteTableItem ==
    /\ Built("Table")
    /\ \E key \in StoredKeys :
          Mutated("delitem", <<key>>, TableDelItem(obj, TableKey(key)))

\* del array[index]
DeleteArrayItem ==
    /\ Built("Array")
    /\ \E index \in 0..Len(obj.value.items) :
          Mutated("delitem", <<I(index)>>, ArrayDelItem(obj, index))

\* array.insert(index, value)
InsertArrayItem ==
    /\ Built("Array")
    /\ \E index \in 0..Len(obj.value.items) : \E value \in AssignedValues :
          Mutated("insert", <<I(index), value>>,
                  ArrayInsert(obj, index, Stored(value)))

\* inner = Table(...) or Array(...); outer = cls(a collection holding inner)
BuildOuter ==
    /\ op = "init"
    /\ \E inner \in InnerInputs : \E outer \in OuterInputs(inner) :
          /\ ret' = New(outer[1], outer[2])
          /\ arg' = [cls |-> outer[1], value |-> outer[2], inner |-> inner,
                     built |-> ret'.val]
    /\ obj' = ret'.val
    /\ op' = "new_outer"
    /\ UNCHANGED <<stream, pos>>

\* the state after a statement on inner that gave r: inner is the object it
\* was, and outer holds what it stored
MutatedInner(name, r) ==
    /\ arg' = [arg EXCEPT !.inner = IF r.err = "" THEN Identified(r.val, arg.inner.id)
                                    ELSE arg.inner]
    /\ obj' = Aliased(obj, arg'.inner)
    /\ ret' = [err |-> r.err, val |-> None]
    /\ op' = name
    /\ UNCHANGED <<stream, pos>>

\* inner[key] = value
SetInnerItem ==
    /\ op = "new_outer"
    /\ \E value \in AssignedValues :
          \/ /\ arg.inner.cls = "Table"
             /\ \E key \in AssignedKeys \cup {PyStr(<<120>>)} :
                   MutatedInner("inner_setitem",
                                TableSetItem(arg.inner, TableKey(key), Stored(value)))
          \/ /\ arg.inner.cls = "Array"
             /\ \E index \in 0..Len(arg.inner.value.items) :
                   MutatedInner("inner_setitem",
                                ArraySetItem(arg.inner, index, Stored(value)))

\* del inner[key]
DeleteInnerItem ==
    /\ op = "new_outer"
    /\ \/ /\ arg.inner.cls = "Table"
          /\ \E key \in AssignedKeys \cup {PyStr(<<120>>)} :
                MutatedInner("inner_delitem", TableDelItem(arg.inner, TableKey(key)))
       \/ /\ arg.inner.cls = "Array"
          /\ \E index \in 0..Len(arg.inner.value.items) :
                MutatedInner("inner_delitem", ArrayDelItem(arg.inner, index))

\* inner.insert(index, value)
InsertInnerItem ==
    /\ op = "new_outer"
    /\ arg.inner.cls = "Array"
    /\ \E index \in 0..Len(arg.inner.value.items) : \E value \in AssignedValues :
          MutatedInner("inner_insert", ArrayInsert(arg.inner, index, Stored(value)))

\* the bytes of a Table or of an Array arrive from the peer with the length
\* the peer declares
FeedDeclared ==
    /\ op = "init"
    /\ \/ \E raw \in DeclaredTables :
             /\ arg' = [cls |-> "Table", value |-> PyBytes(raw)]
             /\ stream' = raw
       \/ \E raw \in DeclaredArrays :
             /\ arg' = [cls |-> "Array", value |-> PyBytes(raw)]
             /\ stream' = raw
    /\ op' = "feed_declared"
    /\ UNCHANGED <<obj, pos, ret>>

\* type_cls.unpack(stream) on the bytes fed
UnpackFed ==
    /\ op = "feed_declared"
    /\ ret' = unpack(arg.cls, stream, 0)
    /\ pos' = ret'.pos
    /\ op' = "unpack_fed"
    /\ UNCHANGED <<arg, obj, stream>>

\* the object read back from the bytes of type_cls(value)
Decoded(c, value) ==
    from_bytestream(c, to_bytestream(Made(c, value), <<>>).stream, 0).val

\* type_cls(a) == type_cls(b), the second one as constructed or as read
\* back from its bytes
Compare ==
    /\ op = "init"
    /\ \E c \in {"Table", "Array"} : \E a \in Compared(c) :
         \E b \in Compared(c) : \E decoded \in BOOLEAN :
            /\ arg' = [cls |-> c, value |-> PyList(<<a, b>>),
                       decoded |-> decoded]
            /\ obj' = PyList(<<Made(c, a),
                               IF decoded THEN Decoded(c, b) ELSE Made(c, b)>>)
    /\ ret' = Ok(PyBool(PyEq(obj'.items[1], obj'.items[2])))
    /\ op' = "eq"
    /\ UNCHANGED <<stream, pos>>

\* Timestamp(a) == Timestamp(b), the second one as constructed or as read
\* back from its bytes
CompareTimestamps ==
    /\ op = "init"
    /\ \E a \in ComparedStamps : \E b \in ComparedStamps : \E decoded \in BOOLEAN :
          /\ arg' = [cls |-> "Timestamp", value |-> PyList(<<a, b>>),
                     decoded |-> decoded]
          /\ obj' = PyList(<<Made("Timestamp", a),
                             IF decoded THEN Decoded("Timestamp", b)
                             ELSE Made("Timestamp", b)>>)
    /\ ret' = Ok(PyBool(PyEq(obj'.items[1], obj'.items[2])))
    /\ op' = "eq_stamps"
    /\ UNCHANGED <<stream, pos>>

\* the next case starts from new objects and a new stream
Reset ==
    /\ op # "init"
    /\ op' = "init"
    /\ arg' = None
    /\ obj' = None
    /\ stream' = <<>>
    /\ pos' = 0
    /\ ret' = Ok(None)

NextTypes ==
    \/ ConstructScalar
    \/ ConstructTable
    \/ ConstructArray
    \/ ConstructInferred
    \/ ToBytestream
    \/ FromBytestream
    \/ ManyToBytestream
    \/ ManyFromBytestream
    \/ Unpack
    \/ FromTruncated
    \/ FeedLabelled
    \/ FromFed
    \/ FeedDeclared
    \/ UnpackFed
    \/ Compare
    \/ CompareTimestamps
    \/ Reset

SpecTypes == Init /\ [][NextTypes]_vars

(***************************************************************************)
(* The calls on methods                                                    *)
(***************************************************************************)
\* method = cls(*values)
NewMethod ==
    /\ op = "init"
    /\ \E cls \in MethodClasses : \E v \in Variants :
         \E bits \in [BitFields(cls.field_info) -> BOOLEAN] :
            /\ arg' = [cls |-> cls.name,
                       value |-> PyList(MethodValues(cls.field_info, v, bits))]
            /\ ret' = BaseMethodInit(cls, MethodValues(cls.field_info, v, bits))
    /\ obj' = ret'.val
    /\ op' = "new_method"
    /\ UNCHANGED <<stream, pos>>

\* method.to_bytestream(stream) on a new stream
MethodToBytestream ==
    /\ op = "new_method"
    /\ ret.err = ""
    /\ stream' = BaseMethodToBytestream(obj, stream).stream
    /\ ret' = [err |-> BaseMethodToBytestream(obj, stream).err, val |-> None]
    /\ op' = "method_to_bytestream"
    /\ UNCHANGED <<arg, obj, pos>>

\* raw bytes arrive instead of the bytes of a method that was written
FeedMethod ==
    /\ op = "init"
    /\ \E raw \in MethodWires :
          /\ stream' = raw
          /\ arg' = PyBytes(raw)
    /\ op' = "feed_method"
    /\ UNCHANGED <<obj, pos, ret>>

\* select_method(raw) on the bytes written or fed
SelectMethod ==
    /\ \/ op = "method_to_bytestream" /\ ret.err = ""
       \/ op = "feed_method"
    /\ ret' = select_method(stream)
    /\ pos' = ret'.pos
    /\ op' = "select_method"
    /\ UNCHANGED <<arg, obj, stream>>

\* cls.from_bytestream(stream) of the method's own class, the cursor behind
\* the tag
MethodFromBytestream ==
    /\ op = "method_to_bytestream"
    /\ ret.err = ""
    /\ ret' = BaseMethodFromBytestream(ClassOf(obj), stream, 4)
    /\ pos' = ret'.pos
    /\ op' = "method_from_bytestream"
    /\ UNCHANGED <<arg, obj, stream>>

NextMethods ==
    \/ NewMethod
    \/ MethodToBytestream
    \/ FeedMethod
    \/ SelectMethod
    \/ MethodFromBytestream
    \/ Reset

SpecMethods == Init /\ [][NextMethods]_vars

(***************************************************************************)
(* The calls on frames and content headers                                 *)
(***************************************************************************)
\* payload = ContentHeaderPayload(class_id, body_length, properties)
NewHeader ==
    /\ op = "init"
    /\ \E h \in HeaderInputs :
          /\ arg' = h
          /\ obj' = h
    /\ ret' = Ok(obj')
    /\ op' = "new_header"
    /\ UNCHANGED <<stream, pos>>

\* payload.to_bytestream(stream) on a new stream
HeaderToBytestream ==
    /\ op = "new_header"
    /\ stream' = ContentHeaderPayloadToBytestream(obj, stream).stream
    /\ ret' = [err |-> ContentHeaderPayloadToBytestream(obj, stream).err,
               val |-> None]
    /\ op' = "header_to_bytestream"
    /\ UNCHANGED <<arg, obj, pos>>

\* ContentHeaderPayload.from_bytestream(stream) on the bytes written
HeaderFromBytestream ==
    /\ op = "header_to_bytestream"
    /\ ret.err = ""
    /\ ret' = ContentHeaderPayloadFromBytestream(stream, 0)
    /\ pos' = ret'.pos
    /\ op' = "header_from_bytestream"
    /\ UNCHANGED <<arg, obj, stream>>

\* frame = cls(channel_id, payload)
NewFrame ==
    /\ op = "init"
    /\ \E cls \in {FrameClasses[i] : i \in 1..Len(FrameClasses)} :
         \E channel_id \in ChannelInputs : \E payload \in PayloadInputs(cls) :
            /\ arg' = [cls |-> cls, value |-> PyList(<<channel_id, payload>>)]
            /\ ret' = FrameInit(cls, channel_id, payload)
    /\ obj' = ret'.val
    /\ op' = "new_frame"
    /\ UNCHANGED <<stream, pos>>

\* frame.to_bytestream(stream) on a new stream
WriteFrame ==
    /\ op = "new_frame"
    /\ ret.err = ""
    /\ stream' = FrameToBytestream(obj, stream).stream
    /\ ret' = [err |-> FrameToBytestream(obj, stream).err, val |-> None]
    /\ op' = "write_frame"
    /\ UNCHANGED <<arg, obj, pos>>

\* the bytes of a frame arrive from the peer
FeedFrame ==
    /\ op = "init"
    /\ \E w \in WireInputs :
          /\ arg' = w
          /\ stream' = WireFrame(w.type, w.channel, w.payload, w.end)
    /\ op' = "feed_frame"
    /\ UNCHANGED <<obj, pos, ret>>

\* the bytes of a frame arrive from the peer, but for the last ones
FeedCutFrame ==
    /\ op = "init"
    /\ \E w \in WireInputs :
        \E k \in 0..(Len(WireFrame(w.type, w.channel, w.payload, w.end)) - 1) :
          /\ w.end = FRAME_END
          /\ arg' = [cls |-> "cut", type |-> w.type, channel |-> w.channel,
                     payload |-> w.payload, end |-> w.end, kept |-> k]
          /\ stream' = SubSeq(WireFrame(w.type, w.channel, w.payload, w.end),
                              1, k)
    /\ op' = "feed_frame"
    /\ UNCHANGED <<obj, pos, ret>>

\* Frame.from_bytestream(stream, read_chunk_size) on the bytes written or fed
ReadFrame ==
    /\ \/ op = "write_frame" /\ ret.err = ""
       \/ op = "feed_frame"
    /\ \E read_chunk_size \in ChunkInputs :
          ret' = FrameFromBytestream(stream, 0, read_chunk_size)
    /\ pos' = ret'.pos
    /\ op' = "read_frame"
    /\ UNCHANGED <<arg, obj, stream>>

\* the bytes of several frames arrive from the peer in one stream
FeedFrames ==
    /\ op = "init"
    /\ \E frames \in SeqsUpTo(StreamFrames, MaxFrames) \ {<<>>} :
          /\ arg' = [cls |-> "wires", frames |-> frames]
          /\ stream' = Wired(frames)
    /\ obj' = PyList(<<>>)
    /\ op' = "feed_frames"
    /\ UNCHANGED <<pos, ret>>

\* Frame.from_bytestream(stream, read_chunk_size) where the last call left
\* the cursor; obj lists what the calls have returned
ReadNextFrame ==
    /\ op \in {"feed_frames", "read_next"}
    /\ Len(obj.items) < Len(arg.frames)
    /\ \E read_chunk_size \in ChunkInputs :
          ret' = FrameFromBytestream(stream, pos, read_chunk_size)
    /\ pos' = ret'.pos
    /\ obj' = PyList(Append(obj.items, ret'.val))
    /\ op' = "read_next"
    /\ UNCHANGED <<arg, stream>>

\* frame = ProtocolHeaderFrame(None, ProtocolHeaderPayload(...))
NewProtocolHeader ==
    /\ op = "init"
    /\ \E payload \in ProtocolInputs :
          /\ arg' = [cls |-> "ProtocolHeaderFrame",
                     value |-> PyList(<<None, payload>>)]
          /\ ret' = FrameInit("ProtocolHeaderFrame", None, payload)
    /\ obj' = ret'.val
    /\ op' = "new_protocol"
    /\ UNCHANGED <<stream, pos>>

\* frame.to_bytestream(stream) on a new stream
WriteProtocolHeader ==
    /\ op = "new_protocol"
    /\ stream' = ProtocolHeaderFrameToBytestream(obj, stream).stream
    /\ ret' = [err |-> ProtocolHeaderFrameToBytestream(obj, stream).err,
               val |-> None]
    /\ op' = "write_protocol"
    /\ UNCHANGED <<arg, obj, pos>>

\* the first bytes of a connection arrive from the peer
FeedProtocolHeader ==
    /\ op = "init"
    /\ \E raw \in ProtocolWires :
          /\ arg' = PyBytes(raw)
          /\ stream' = raw
    /\ op' = "feed_protocol"
    /\ UNCHANGED <<obj, pos, ret>>

\* ProtocolHeaderFrame.from_bytestream(stream) on the bytes written or fed
ReadProtocolHeader ==
    /\ \/ op = "write_protocol" /\ ret.err = ""
       \/ op = "feed_protocol"
    /\ ret' = ProtocolHeaderFrameFromBytestream(stream, 0)
    /\ pos' = ret'.pos
    /\ op' = "read_protocol"
    /\ UNCHANGED <<arg, obj, stream>>

NextFrames ==
    \/ NewProtocolHeader
    \/ WriteProtocolHeader
    \/ FeedProtocolHeader
    \/ ReadProtocolHeader
    \/ NewHeader
    \/ HeaderToBytestream
    \/ HeaderFromBytestream
    \/ NewFrame
    \/ WriteFrame
    \/ FeedFrame
    \/ FeedCutFrame
    \/ ReadFrame
    \/ Reset

SpecFrames == Init /\ [][NextFrames]_vars

\* the calls that change what a Table or an Array stores: construction, item
\* assignment, insertion and deletion
NextStored ==
    \/ ConstructTable
    \/ ConstructArray
    \/ SetTableItem
    \/ SetArrayItem
    \/ InsertArrayItem
    \/ DeleteTableItem
    \/ DeleteArrayItem
    \/ Reset

SpecStored == Init /\ [][NextStored]_vars

\* the calls that read a stream of frames one by one
NextStream ==
    \/ FeedFrames
    \/ ReadNextFrame
    \/ Reset

SpecStream == Init /\ [][NextStream]_vars

\* the calls on a Table or an Array that another composite was built from
NextOwned ==
    \/ BuildOuter
    \/ SetInnerItem
    \/ DeleteInnerItem
    \/ InsertInnerItem
    \/ Reset

SpecOwned == Init /\ [][NextOwned]_vars

\* every call of the model
Next ==
    NextTypes \/ NextMethods \/ NextFrames \/ NextStored \/ NextOwned
        \/ NextStream

Spec == Init /\ [][Next]_vars

\* the calls that decode a buffer cut short: values of the type classes
\* written and read back from a prefix, and frames fed without their last
\* bytes
NextTruncated ==
    \/ ConstructScalar
    \/ ConstructTable
    \/ ConstructArray
    \/ ConstructInferred
    \/ ToBytestream
    \/ FromTruncated
    \/ FeedCutFrame
    \/ ReadFrame
    \/ Reset

SpecTruncated == Init /\ [][NextTruncated]_vars

(***************************************************************************)
(* Properties of the type classes                                          *)
(***************************************************************************)
\* the call that was just made is on a scalar class
OnScalar == arg.cls \in ScalarClasses

\* the call that was just made is on Table or Array
OnComposite == arg.cls \in {"Table", "Array"}

\* after to_bytestream: no exception; after from_bytestream: no exception
\* and a value equal to the one that was written
RoundTrips ==
    /\ op = "to_bytestream" => ret.err = ""
    /\ op = "from_bytestream" => ret.err = "" /\ PyEq(ret.val, obj)

\* C1: for every scalar kind and every value the constructor accepts,
\* to_bytestream succeeds and from_bytestream of the written bytes returns a
\* value equal to the original
C1_ScalarRoundTrip == OnScalar => RoundTrips

\* C2: every Table and Array, nested to any depth, is written by
\* to_bytestream and read back by from_bytestream as a deep-equal structure
C2_CompositeRoundTrip == OnComposite => RoundTrips

\* C3: an integer kind constructed with a value in [MIN, MAX], MIN and MAX
\* included, keeps exactly that value; constructed with a value outside, MIN-1
\* and MAX+1 included, it raises ValueError; nothing is clamped or wrapped
C3_IntBounds ==
    (op = "new" /\ IsIntKind(arg.cls) /\ arg.value.cls = "int") =>
        IF IntLe(MIN(arg.cls), arg.value) /\ IntLe(arg.value, MAX(arg.cls))
        THEN ret.err = "" /\ obj = Obj(arg.cls, arg.value)
        ELSE ret.err = "ValueError"

\* the widest unsigned kind has been constructed at MAX + 1 and has refused it
C3_Witness ==
    /\ op = "new"
    /\ arg.cls = "UnsignedLongLong"
    /\ arg.value = IntSucc(MAX("UnsignedLongLong"))
    /\ ret.err = "ValueError"

\* C4: unpack_many(pack_many(bits), n) of n booleans returns n values equal,
\* position by position, to the original ones, for every n >= 0
C4_BitsRoundTrip ==
    op = "many_from_bytestream" =>
        /\ ret.err = ""
        /\ Len(ret.val.items) = Len(arg.items)
        /\ \A i \in 1..Len(arg.items) : PyEq(ret.val.items[i], arg.items[i])

\* nine booleans, the last one True after eight False, have been read back
C4_Witness ==
    /\ op = "many_from_bytestream"
    /\ Len(arg.items) = 8 + 1
    /\ \A i \in 1..8 : arg.items[i] = PyBool(FALSE)
    /\ arg.items[8 + 1] = PyBool(TRUE)
    /\ Len(ret.val.items) = 8 + 1

(***************************************************************************)
(* Properties of the methods                                               *)
(***************************************************************************)
\* obj is a method, of a generated class or of the sample subclass
OnMethod == IsMethod(obj) \/ obj.cls = SampleMethod.name

\* C5: for every class of the dispatch table and every valid assignment of
\* its fields, select_method on the bytes written by to_bytestream returns a
\* method equal to the original: the same tag, equal values field by field
C5_MethodRoundTrip ==
    (op = "select_method" /\ IsMethod(obj)) =>
        ret.err = "" /\ MethodEq(ret.val, obj)

\* the length of the run of Bool values a sequence of values starts with
RunLength(values) ==
    LET others == {i \in 1..Len(values) : values[i].cls # "Bool"} IN
    IF others = {} THEN Len(values)
    ELSE (CHOOSE i \in others : \A j \in others : i <= j) - 1

\* 1 when the run has a k-th value and it is True
RunBit(run, k) == IF k <= Len(run) /\ run[k].value.truth THEN 1 ELSE 0

\* a run of Bool values as packed groups: value j of a group at bit 7 - j,
\* the bits behind the last value zero
PackedRun(run) ==
    [g \in 1..((Len(run) + 7) \div 8) |->
        128 * RunBit(run, 8 * g - 7) + 64 * RunBit(run, 8 * g - 6)
          + 32 * RunBit(run, 8 * g - 5) + 16 * RunBit(run, 8 * g - 4)
          + 8 * RunBit(run, 8 * g - 3) + 4 * RunBit(run, 8 * g - 2)
          + 2 * RunBit(run, 8 * g - 1) + RunBit(run, 8 * g)]

\* the fields of a method on the wire: in declared order, every maximal run
\* of Bool fields as one packed group where the run stands
RECURSIVE MethodLayout(_)
MethodLayout(values) ==
    IF values = <<>> THEN <<>>
    ELSE IF Head(values).cls = "Bool"
    THEN PackedRun(SubSeq(values, 1, RunLength(values)))
           \o MethodLayout(SubSeq(values, RunLength(values) + 1, Len(values)))
    ELSE pack(Head(values)).val \o MethodLayout(Tail(values))

\* to_bytestream of a method writes the tag and the fields, runs of bits
\* packed
MethodWritten ==
    (OnMethod /\ op = "method_to_bytestream") =>
        /\ ret.err = ""
        /\ stream = StructPackHH(obj.method_type) \o MethodLayout(obj.values)

\* C6: a method is written as its 4-byte tag and its fields in declared
\* order, every maximal run of Bit fields as one packed group where the run
\* stands (Short, Bit, Bit, Bit, Shortstr, Bit gives two groups), and
\* decoding that output recovers every field
C6_BitRunPacking ==
    /\ MethodWritten
    /\ (OnMethod /\ op \in {"select_method", "method_from_bytestream"}) =>
          ret.err = "" /\ MethodEq(ret.val, obj)

\* the tag at the head of the stream is the tag of no generated class
UnknownTag ==
    /\ Len(stream) >= 4
    /\ \A i \in 1..Len(MethodNames) :
          method_type(MethodNames[i]) # StructUnpackHH(SubSeq(stream, 1, 4))

\* C10: select_method on a payload whose tag is not a key of METHODS raises
\* KeyError and returns no method, whatever follows the tag
C10_UnknownTag ==
    (op = "select_method" /\ UnknownTag) =>
        ret.err = "KeyError" /\ ret.val = None

\* the tag (10, 12) followed by three bytes has been refused
C10_Witness ==
    /\ op = "select_method"
    /\ UnknownTag
    /\ stream = <<0, 10, 0, 12, 1, 2, 3>>
    /\ ret.err = "KeyError"

(***************************************************************************)
(* Properties of the frames and of the content header                      *)
(***************************************************************************)
\* a content header of the registered class whose body length fits and
\* whose properties are absent or of their declared types
ValidHeader(h) ==
    /\ h.class_id = I(60)
    /\ IntLe(h.body_length, MAX("UnsignedLongLong"))
    /\ Len(h.properties) = Len(PROPERTIES)
    /\ \A i \in 1..Len(PROPERTIES) :
          h.properties[i] = None \/ h.properties[i].cls = PROPERTIES[i]

\* 1 when the i-th property of the list is present
Present(properties, i) ==
    IF i <= Len(properties) /\ properties[i] # None THEN 1 ELSE 0

\* the flags word: bit 15 - i for the property at index i, counted from 0
FlagsLayout(properties) ==
    <<128 * Present(properties, 1) + 64 * Present(properties, 2)
        + 32 * Present(properties, 3) + 16 * Present(properties, 4)
        + 8 * Present(properties, 5) + 4 * Present(properties, 6)
        + 2 * Present(properties, 7) + Present(properties, 8),
      128 * Present(properties, 9) + 64 * Present(properties, 10)
        + 32 * Present(properties, 11) + 16 * Present(properties, 12)
        + 8 * Present(properties, 13) + 4 * Present(properties, 14)>>

\* the present values in schema order; an absent one gives no byte
RECURSIVE PresentLayout(_)
PresentLayout(properties) ==
    IF properties = <<>> THEN <<>>
    ELSE IF Head(properties) = None THEN PresentLayout(Tail(properties))
    ELSE pack(Head(properties)).val \o PresentLayout(Tail(properties))

\* a content header on the wire
HeaderLayout(h) ==
    StructPackInt("UnsignedShort", h.class_id) \o <<0, 0>>
        \o StructPackInt("UnsignedLongLong", h.body_length)
        \o FlagsLayout(h.properties) \o PresentLayout(h.properties)

\* C7: a content header of a registered class is written with a flags word
\* whose bit 15 - i is set exactly when property i is present, followed by
\* the present values in schema order; decoding those bytes returns an equal
\* header with exactly the same properties present and every other one None
C7_PropertyFlags ==
    (obj.cls = "ContentHeaderPayload" /\ ValidHeader(obj)) =>
        /\ op = "header_to_bytestream" =>
              ret.err = "" /\ stream = HeaderLayout(obj)
        /\ op = "header_from_bytestream" =>
              /\ ret.err = ""
              /\ ContentHeaderPayloadEq(ret.val, obj)
              /\ \A i \in 1..Len(PROPERTIES) :
                    (ret.val.properties[i] = None) <=> (obj.properties[i] = None)

\* the bytes payload.to_bytestream writes on an empty stream
PayloadBytes(payload) == WritePayload(payload, Start(<<>>))

\* a frame whose channel fits two bytes and whose payload can be written
ValidFrame(f) ==
    /\ \E i \in 1..Len(FrameClasses) : FrameClasses[i] = f.cls
    /\ IntLe(I(0), f.channel_id)
    /\ IntLe(f.channel_id, MAX("UnsignedShort"))
    /\ PayloadBytes(f.payload).err = ""

\* the payload bytes a frame carries; a heartbeat carries none
Carried(f) ==
    IF f.payload.cls = "HeartbeatPayload" THEN <<>>
    ELSE PayloadBytes(f.payload).stream

\* a frame on the wire: type, channel, the size of the payload, the payload,
\* the terminator
FrameLayout(f) ==
    <<frame_type(f.cls)>> \o StructPackInt("UnsignedShort", f.channel_id)
        \o StructPackInt("UnsignedLong", I(Len(Carried(f))))
        \o Carried(f) \o <<FRAME_END>>

\* two payloads of the same kind with the same content
SamePayload(a, b) ==
    /\ a.cls = b.cls
    /\ CASE a.cls = "ContentHeaderPayload" -> ContentHeaderPayloadEq(a, b)
         [] a.cls = "ContentBodyPayload" -> PyEq(a.data, b.data)
         [] a.cls = "HeartbeatPayload" -> TRUE
         [] OTHER -> MethodEq(a, b)

\* C8: Frame.to_bytestream writes the frame type, the channel id, the size
\* of the payload in four bytes, the payload and the terminator 206, for a
\* frame of each of the four kinds; Frame.from_bytestream on these bytes
\* returns a frame of the same kind, channel and payload
C8_FrameEnvelope ==
    ValidFrame(obj) =>
        /\ op = "write_frame" => ret.err = "" /\ stream = FrameLayout(obj)
        /\ op = "read_frame" =>
              /\ ret.err = ""
              /\ ret.val.cls = obj.cls
              /\ PyEq(ret.val.channel_id, obj.channel_id)
              /\ SamePayload(ret.val.payload, obj.payload)

\* C9: Frame.from_bytestream on a frame that is well formed but for its last
\* byte, which is not 206, raises AssertionError and returns no frame,
\* whatever the frame type and the payload are
C9_BadTerminator ==
    (op = "read_frame" /\ arg.cls = "wire" /\ arg.end # FRAME_END) =>
        ret.err = "AssertionError" /\ ret.val = None

\* a heartbeat frame that ends with 205 has been refused
C9_Witness ==
    /\ op = "read_frame"
    /\ arg.cls = "wire"
    /\ arg.type = FRAME_HEARTBEAT
    /\ arg.channel = 0
    /\ arg.payload = <<>>
    /\ arg.end = FRAME_END - 1
    /\ ret.err = "AssertionError"

\* the heartbeat of tests/unit/test_frames.py: type 8, channel 0, size 4,
\* four zero bytes, the terminator
HeartbeatData == <<8, 0, 0, 0, 0, 0, 4, 0, 0, 0, 0, 206>>

\* Frame.from_bytestream on the twelve bytes gives a HeartbeatFrame on
\* channel 0
HeartbeatRead ==
    (op = "read_frame" /\ stream = HeartbeatData) =>
        /\ ret.err = ""
        /\ ret.val.cls = "HeartbeatFrame"
        /\ PyEq(ret.val.channel_id, I(0))

\* C11: Frame.from_bytestream on the twelve bytes 08 00 00 00 00 00 04 00 00
\* 00 00 CE returns a HeartbeatFrame on channel 0, and
\* HeartbeatFrame(0, HeartbeatPayload()).to_bytestream writes exactly these
\* twelve bytes
C11_Heartbeat ==
    /\ HeartbeatRead
    /\ (op = "write_frame" /\ obj.cls = "HeartbeatFrame"
          /\ PyEq(obj.channel_id, I(0))) =>
            ret.err = "" /\ stream = HeartbeatData

RECURSIVE EndOfFrame(_, _)
EndOfFrame(frames, n) ==
    IF n = 0 THEN 0
    ELSE EndOfFrame(frames, n - 1) + 1 + 2 + 4 + Len(frames[n].payload) + 1

\* the n-th call has returned the n-th frame of the stream: its class and
\* its channel
ReturnedInOrder(frames, returned, n) ==
    /\ frame_type(returned[n].cls) = frames[n].type
    /\ PyEq(returned[n].channel_id, I(frames[n].channel))

DeclaredLength(bytes) == BytesNat(SubSeq(bytes, 1, 4))

\* C28: when Table.unpack or Array.unpack succeeds, the number of bytes it
\* reports and the cursor are 4 plus the declared length: an entry that
\* extends past the declared length is not accepted, and the bytes behind
\* the composite are not read
C28_DeclaredLength ==
    (op \in {"unpack", "unpack_fed"} /\ arg.cls \in {"Table", "Array"}
        /\ ret.err = "") =>
        /\ ret.n = 4 + DeclaredLength(stream)
        /\ pos = 4 + DeclaredLength(stream)

\* the keys of a Table are ShortStr instances, no two of the same bytes
ShortStrKeys(items) ==
    /\ \A i \in 1..Len(items) : items[i][1].cls = "ShortStr"
    /\ \A i, j \in 1..Len(items) :
          items[i][1].value.b = items[j][1].value.b => i = j

\* the values a Table or an Array stores are instances of type classes
TypedMembers(o) ==
    \A i \in 1..Len(o.value.items) :
        IsBaseType(IF o.cls = "Table" THEN o.value.items[i][2]
                   ELSE o.value.items[i])

\* C29: after every construction, item assignment, insertion and deletion, a
\* Table or an Array stores instances of type classes only, and the keys of
\* a Table are ShortStr instances, one for all the forms of a key; an
\* assignment or an insertion of a value that no kind is inferred for
\* raises ValueError, and a statement that raises leaves the contents as
\* they were
C29_StoredTyped ==
    (op \in {"new", "setitem", "insert", "delitem"} /\ obj # None
        /\ obj.cls \in {"Table", "Array"}) =>
        /\ TypedMembers(obj)
        /\ obj.cls = "Table" => ShortStrKeys(obj.value.items)
        /\ op # "new" =>
              /\ ret.err # "" => obj = arg.held
              /\ (op # "delitem"
                    /\ arg.value.items[2] = IntSucc(Pow2Minus1(63))) =>
                    ret.err = "ValueError"

RECURSIVE DeepEqual(_, _)
\* two Tables have the same keys, and deep-equal values under each key
SameEntries(a, b) ==
    /\ \A i \in 1..Len(a) : \E j \in 1..Len(b) :
          a[i][1].value.b = b[j][1].value.b /\ DeepEqual(a[i][2], b[j][2])
    /\ \A j \in 1..Len(b) : \E i \in 1..Len(a) :
          a[i][1].value.b = b[j][1].value.b

\* two Arrays have the same length, and deep-equal elements at every index
SameElements(a, b) ==
    Len(a) = Len(b) /\ \A i \in 1..Len(a) : DeepEqual(a[i], b[i])

\* deep equality of two values held by a Table or an Array
DeepEqual(a, b) ==
    CASE a.cls = "Table" /\ b.cls = "Table" ->
           SameEntries(a.value.items, b.value.items)
      [] a.cls = "Array" /\ b.cls = "Array" ->
           SameElements(a.value.items, b.value.items)
      [] a.cls \in {"Table", "Array"} \/ b.cls \in {"Table", "Array"} -> FALSE
      [] OTHER -> PyEq(a, b)

\* C13: two Tables are equal exactly when they have the same keys and
\* deep-equal values under each key, in whatever order the entries were
\* inserted or decoded; two Arrays are equal exactly when they have the same
\* length and deep-equal elements at every index, so the same elements in
\* another order are not equal
C13_DeepEquality ==
    op = "eq" =>
        (ret.val.truth <=> DeepEqual(obj.items[1], obj.items[2]))

\* the Tables {a: 1, b: 2} and {b: 2, a: 1} have compared equal
C13_Witness ==
    /\ op = "eq"
    /\ arg.cls = "Table"
    /\ arg.value.items[1] =
          PyDict(<< <<PyStr(<<97>>), I(1)>>, <<PyStr(<<98>>), I(2)>> >>)
    /\ arg.value.items[2] =
          PyDict(<< <<PyStr(<<98>>), I(2)>>, <<PyStr(<<97>>), I(1)>> >>)
    /\ ret.val.truth

\* the kinds an untyped integer is tried on, in order
InferenceOrder ==
    <<"SignedByte", "UnsignedByte", "SignedShort", "UnsignedShort",
      "SignedLong", "UnsignedLong", "SignedLongLong">>

\* the positions in the order of the kinds whose [MIN, MAX] contains v
Fitting(v) ==
    {i \in 1..Len(InferenceOrder) :
        IntLe(MIN(InferenceOrder[i]), v) /\ IntLe(v, MAX(InferenceOrder[i]))}

\* the plain value a Table or an Array was constructed with, when it is the
\* only one, and None otherwise
OnlyPlain ==
    IF op # "new" \/ arg.cls \notin {"Table", "Array"} THEN None
    ELSE IF Len(arg.value.items) # 1 THEN None
    ELSE IF arg.cls = "Table" THEN arg.value.items[1][2]
    ELSE arg.value.items[1]

\* the member the Table or the Array holds for it
OnlyStored ==
    IF obj.cls = "Table" THEN obj.value.items[1][2] ELSE obj.value.items[1]

\* C14: an untyped integer stored in a Table or an Array gets the first kind
\* of signed-8, unsigned-8, signed-16, unsigned-16, signed-32, unsigned-32,
\* signed-64 whose range contains it; outside the signed 64-bit range the
\* construction raises ValueError; an untyped boolean gets the boolean kind
C14_IntegerInference ==
    /\ OnlyPlain.cls = "int" =>
          IF Fitting(OnlyPlain) = {} THEN ret.err = "ValueError"
          ELSE /\ ret.err = ""
               /\ OnlyStored.value = OnlyPlain
               /\ \E i \in Fitting(OnlyPlain) :
                     /\ OnlyStored.cls = InferenceOrder[i]
                     /\ \A j \in Fitting(OnlyPlain) : i <= j
    /\ OnlyPlain.cls = "bool" =>
          ret.err = "" /\ OnlyStored = Obj("Bool", OnlyPlain)

\* 128 stored in an Array has been given the unsigned 8-bit kind
C14_Witness ==
    /\ OnlyPlain = I(128)
    /\ arg.cls = "Array"
    /\ ret.err = ""
    /\ OnlyStored = Obj("UnsignedByte", I(128))

\* b is the big-endian encoding of the integer v on Len(b) bytes: the
\* magnitude itself for v >= 0, the complement of -v - 1 for v < 0
BigEndian(b, v) ==
    IF v.neg
    THEN ZeroBytes(NB - Len(b)) \o [i \in 1..Len(b) |-> 255 - b[i]]
           = MagDec(v.mag)
    ELSE ZeroBytes(NB - Len(b)) \o b = v.mag

\* C15: pack of an integer kind of width W gives exactly W bytes, the
\* big-endian encoding of the value (two's complement for the signed kinds);
\* unpack reads exactly W bytes, reports W as consumed and leaves the cursor
\* W bytes further on
C15_FixedWidth ==
    IsIntKind(obj.cls) =>
        /\ op = "to_bytestream" =>
              /\ ret.err = ""
              /\ Len(stream) = STRUCT_SIZE(obj.cls)
              /\ BigEndian(stream, obj.value)
        /\ op = "unpack" =>
              /\ ret.err = ""
              /\ ret.val = obj.value
              /\ ret.n = STRUCT_SIZE(obj.cls)
              /\ pos = STRUCT_SIZE(obj.cls)

\* -32768 has been written as the two bytes 80 00 and unpacked from them
\* with two more bytes behind
C15_Witness ==
    /\ op = "unpack"
    /\ obj = Obj("SignedShort", MIN("SignedShort"))
    /\ stream = <<128, 0, 1, 2>>
    /\ ret.n = 2
    /\ pos = 2

\* 2 to the power k, for k in 0..7
TwoTo(k) == CASE k = 0 -> 1 [] k = 1 -> 2 [] k = 2 -> 4 [] k = 3 -> 8
              [] k = 4 -> 16 [] k = 5 -> 32 [] k = 6 -> 64 [] k = 7 -> 128

\* bit k (0 the lowest) of a byte
BitOf(byte, k) == (byte \div TwoTo(k)) % 2

\* C16: pack_many of n booleans gives exactly ceil(n / 8) bytes, none for
\* n = 0; the value at index i sits at bit 7 - (i mod 8) of byte
\* floor(i / 8), and the bits of the last byte beyond index n - 1 are zero
C16_PackMany ==
    op = "many_to_bytestream" =>
        /\ Len(stream) = (Len(arg.items) + 7) \div 8
        /\ \A i \in 0..(8 * Len(stream) - 1) :
              BitOf(stream[(i \div 8) + 1], 7 - (i % 8)) =
                  IF i < Len(arg.items) /\ arg.items[i + 1].truth THEN 1 ELSE 0

\* nine booleans, only the second and the ninth True, have been packed as
\* 40 80
C16_Witness ==
    /\ op = "many_to_bytestream"
    /\ Len(arg.items) = 8 + 1
    /\ \A i \in 1..(8 + 1) : arg.items[i].truth <=> i \in {2, 8 + 1}
    /\ stream = <<64, 128>>

\* C17: when to_bytestream of a frame or of a payload fails on a part that
\* is out of range (a channel id above 65535, a body length above 2^64 - 1, a
\* version number above 255), it raises before any byte is written: the
\* stream, new before the call, is still empty
C17_NothingWritten ==
    (op \in {"write_frame", "header_to_bytestream", "write_protocol"}
       /\ ret.err = "ValueError") => stream = <<>>

\* C18: decoding from a buffer that ends before the bytes the grammar
\* requires raises an error and returns no value, for a fixed-width scalar
\* cut short and for a short string, long string, byte array, table, array
\* or frame payload whose declared length exceeds the bytes that remain
C18_TruncatedBuffer ==
    /\ op = "from_truncated" => ret.err # "" /\ ret.val = None
    /\ (op = "read_frame" /\ arg.cls = "cut") =>
          ret.err # "" /\ ret.val = None

\* the label byte of no class of the registry
UnknownLabel(L) ==
    L \notin {116, 98, 66, 115, 117, 73, 105, 108, 102, 100, 68, 83, 86, 120,
              84, 70, 65}

\* C19: decoding a Table or an Array in which an element's label is not in
\* TABLE_LABEL_TO_CLS raises KeyError for the whole decode, at any depth of
\* nesting: no partial Table or Array is returned, and the element is neither
\* skipped nor given a default kind
C19_UnknownLabel ==
    (op = "from_fed" /\ UnknownLabel(arg.label)) =>
        ret.err = "KeyError" /\ ret.val = None

\* the Table {k: [z...]} whose inner Array holds the unknown label 'z' has
\* been refused
C19_Witness ==
    /\ op = "from_fed"
    /\ arg.cls = "Table"
    /\ stream = <<0, 0, 0, 8, 1, 107, 65, 0, 0, 0, 1, 122>>
    /\ ret.err = "KeyError"

RECURSIVE Labelled(_)
\* a value held by a Table or an Array whose class has a label, and so for
\* the values it holds itself
Labelled(v) ==
    /\ TABLE_LABEL(v.cls) # NoLabel
    /\ v.cls = "Table" =>
          \A i \in 1..Len(v.value.items) : Labelled(v.value.items[i][2])
    /\ v.cls = "Array" =>
          \A i \in 1..Len(v.value.items) : Labelled(v.value.items[i])

\* C20: after a construction, an item assignment or an insertion, no value of
\* a class without a label (ShortStr, UnsignedLongLong) is stored in a Table
\* or in an Array: every value held has a one-byte label
C20_LabelledMembers ==
    (op \in {"new", "setitem", "insert"} /\ obj # None
        /\ obj.cls \in {"Table", "Array"}) => Labelled(obj)

\* a decimal.Decimal with sign 0, an exponent that fits an unsigned byte and
\* a magnitude that fits an unsigned 32-bit integer
AcceptedDecimal(d) ==
    /\ d.special = ""
    /\ d.sign = 0
    /\ d.exponent \in 0..255
    /\ IntLe(DecimalInt(d), MAX("UnsignedLong"))

\* C21: Decimal(value) accepts exactly the decimals of sign 0 whose exponent
\* is in the range of an unsigned byte and whose magnitude is in the range
\* of an unsigned 32-bit integer; an accepted Decimal packs to 5 bytes, the
\* exponent byte and then the magnitude as an unsigned 32-bit integer, and
\* the 5 bytes unpack to a Decimal equal to the original
C21_Decimal ==
    (arg.cls = "Decimal" /\ arg.value.cls = "decimal.Decimal") =>
        /\ op = "new" => (ret.err = "" <=> AcceptedDecimal(arg.value))
        /\ op = "to_bytestream" =>
              /\ ret.err = ""
              /\ Len(stream) = 5
              /\ stream[1] = obj.value.exponent
              /\ BigEndian(SubSeq(stream, 2, 5), DecimalInt(obj.value))
        /\ op = "from_bytestream" => ret.err = "" /\ PyEq(ret.val, obj)

RECURSIVE SameKinds(_, _)
\* two values of the same class, and for two Tables or two Arrays members of
\* the same classes, one by one
SameKinds(a, b) ==
    /\ a.cls = b.cls
    /\ a.cls \in {"Table", "Array"} =>
          /\ Len(a.value.items) = Len(b.value.items)
          /\ \A i \in 1..Len(a.value.items) :
                IF a.cls = "Table"
                THEN SameKinds(a.value.items[i][2], b.value.items[i][2])
                ELSE SameKinds(a.value.items[i], b.value.items[i])

\* a Table or an Array read back has the classes that were written, and is
\* written again as the same bytes
KindsKept(decoded, written, bytes) ==
    /\ SameKinds(decoded, written)
    /\ to_bytestream(decoded, <<>>).stream = bytes

\* the positions of the Table fields of a method
TableFields(method) ==
    {i \in 1..Len(method.values) : method.values[i].cls = "Table"}

\* C22: decoding applies no inference: every element of a decoded Table or
\* Array, nested ones and a Table field of a decoded method included, has the
\* class of the label written before it, so that writing the decoded value
\* again writes the same labels
C22_NoInferenceOnDecode ==
    /\ (op = "from_bytestream" /\ obj.cls \in {"Table", "Array"}
            /\ ret.err = "") =>
          KindsKept(ret.val, obj, stream)
    /\ (op = "method_from_bytestream" /\ TableFields(obj) # {}) =>
          /\ ret.err = ""
          /\ \A i \in TableFields(obj) :
                SameKinds(ret.val.values[i], obj.values[i])

\* C23: a content header whose property list has more than 14 entries is
\* refused with an exception when it is written, and the flags word of a
\* header that was written has its two low-order bits clear
C23_FourteenProperties ==
    (op = "header_to_bytestream" /\ obj.cls = "ContentHeaderPayload") =>
        /\ Len(obj.properties) > 14 => ret.err # ""
        /\ ret.err = "" => Len(stream) >= 14 /\ stream[14] % 4 = 0

\* C24: a composite owns the values it was built from: after an assignment,
\* a deletion or an insertion on a Table or an Array from which an outer
\* Table or Array was built before, the outer composite has the contents it
\* was built with, is equal to what it was and is encoded as it was
C24_OwnedMembers ==
    op \in {"inner_setitem", "inner_delitem", "inner_insert"} =>
        /\ ValueOf(obj) = ValueOf(arg.built)
        /\ PyEq(obj, arg.built)
        /\ pack(obj) = pack(arg.built)

\* a datetime of the first seconds after the epoch, in microseconds
Micros(d) == IntNat(d.t) * 1000000 + d.us

\* two datetimes at most one second apart
OneSecondApart(a, b) ==
    /\ Micros(a) - Micros(b) <= 1000000
    /\ Micros(b) - Micros(a) <= 1000000

\* C25: Timestamp(value) refuses a datetime before 1970; a Timestamp packs
\* to 8 bytes, the whole seconds since the epoch as an unsigned 64-bit
\* integer; two Timestamps are equal exactly when they are at most one second
\* apart; the bytes of a Timestamp are read back as a Timestamp equal to it
C25_Timestamp ==
    /\ arg.cls = "Timestamp" =>
          /\ (op = "new" /\ arg.value.cls = "datetime" /\ arg.value.t.neg) =>
                ret.err = "ValueError"
          /\ op = "to_bytestream" =>
                /\ ret.err = ""
                /\ Len(stream) = 8
                /\ BigEndian(stream, obj.value.t)
          /\ op = "from_bytestream" => ret.err = "" /\ PyEq(ret.val, obj)
    /\ op = "eq_stamps" =>
          (ret.val.truth <=>
              OneSecondApart(obj.items[1].value, obj.items[2].value))

\* a frame of type 3 fed with the terminator behind its payload
BodyFrameFed ==
    /\ op = "read_frame"
    /\ arg.cls = "wire"
    /\ arg.type = FRAME_BODY
    /\ arg.end = FRAME_END

\* C30: Frame.from_bytestream on a frame of type 3 returns a ContentBodyFrame
\* of the frame's channel whose data are the payload bytes of the frame,
\* as many as the size field declares, whatever read_chunk_size is
C30_BodyPayload ==
    BodyFrameFed =>
        /\ ret.err = ""
        /\ ret.val.cls = "ContentBodyFrame"
        /\ ret.val.channel_id.value = I(arg.channel)
        /\ ret.val.payload.data.b = arg.payload
        /\ Len(ret.val.payload.data.b) = BytesNat(SubSeq(stream, 4, 7))

\* a version number that fits one byte
IsOctet(v) == v.cls = "int" /\ IntLe(I(0), v) /\ IntLe(v, I(255))

\* a protocol header frame whose three version numbers fit one byte each
ValidProtocolHeader(f) ==
    /\ f.cls = "ProtocolHeaderFrame"
    /\ IsOctet(f.payload.protocol_major)
    /\ IsOctet(f.payload.protocol_minor)
    /\ IsOctet(f.payload.protocol_revision)

\* the first five bytes of the stream are "AMQP" and a zero byte
HasPrefix ==
    Len(stream) >= 5 /\ SubSeq(stream, 1, 5) = <<65, 77, 81, 80, 0>>

\* C12: a ProtocolHeaderFrame is written as exactly 8 bytes, "AMQP\0" and the
\* major, minor and revision bytes, with no type, channel, size or
\* terminator; reading these bytes gives a frame with channel id None and the
\* same three version numbers; reading bytes that do not start with "AMQP\0"
\* fails
C12_ProtocolHeader ==
    /\ (op = "write_protocol" /\ ValidProtocolHeader(obj)) =>
          /\ ret.err = ""
          /\ stream = <<65, 77, 81, 80, 0,
                        IntNat(obj.payload.protocol_major),
                        IntNat(obj.payload.protocol_minor),
                        IntNat(obj.payload.protocol_revision)>>
    /\ (op = "read_protocol" /\ obj # None) =>
          /\ ret.err = ""
          /\ ret.val.cls = "ProtocolHeaderFrame"
          /\ ret.val.channel_id = None
          /\ PyEq(ret.val.payload.protocol_major, obj.payload.protocol_major)
          /\ PyEq(ret.val.payload.protocol_minor, obj.payload.protocol_minor)
          /\ PyEq(ret.val.payload.protocol_revision,
                  obj.payload.protocol_revision)
    /\ (op = "read_protocol" /\ ~HasPrefix) =>
          ret.err # "" /\ ret.val = None

\* the default header 0, 9, 1 has been written as 8 bytes and read back
\* with channel id None
C12_Witness ==
    /\ op = "read_protocol"
    /\ obj # None
    /\ stream = <<65, 77, 81, 80, 0, 0, 9, 1>>
    /\ ret.err = ""
    /\ ret.val.channel_id = None

====
